---- MODULE Spec2Model ----
(***************************************************************************)
(* Model of the model-release-tracker poll pipeline (src/mrt).             *)
(*                                                                         *)
(* The durable State Store (sqlite_store.py), the Runner's run_once and    *)
(* _process_event (runner.py), the RuleMatcher (rules/matcher.py) and      *)
(* TrackerEvent.fingerprint (models.py) are modelled.  One action is one   *)
(* State Store operation or one call of an external collaborator (a        *)
(* source's poll, a notifier's send) together with the in-memory           *)
(* bookkeeping around it, so that a process stop can fall between any two  *)
(* durable writes.                                                          *)
(***************************************************************************)
EXTENDS Integers, Sequences, FiniteSets, TLC

(***************************************************************************)
(* Bounds of the model.                                                    *)
(***************************************************************************)
MaxCycles == 2
MaxBatch == 2
MaxCrashes == 1
MaxCalls == 5
MaxKeywords == 2
MaxPages == 2
MaxItems == 2
MaxPolls == 2
MaxRetries == 2

(***************************************************************************)
(* Values.                                                                 *)
(***************************************************************************)
\* Python's None where a string is expected (cursor, error).
Null == "null"

\* Optional values that are not strings are sequences of length 0 or 1.
None == <<>>
Some(x) == <<x>>

Range(s) == {s[i] : i \in 1..Len(s)}

(***************************************************************************)
(* Configuration of the Runner (runner.py: Runner fields, build_runner).   *)
(***************************************************************************)
Runners == {"r1"}

\* source.key() of the configured sources, in iteration order
Sources == <<"s1", "s2">>

\* notifier.channel() of the configured notifiers, in iteration order
Notifiers == <<"welink", "email">>

\* RuleMatcher.keywords: strings are sequences of characters
Keywords == << <<" ", "D", "s">>, <<"s">> >>

\* RuleMatcher.source_allowlist: build_runner leaves it at None
SourceAllowlist == None

\* the cursors an adapter may hand back
Cursors == {"c1"}

\* f"{type(e).__name__}: {e}" of the one exception the collaborators raise
ErrorText == "RuntimeError: boom"

(***************************************************************************)
(* TrackerEvent (models.py).                                               *)
(***************************************************************************)
TitleHit == <<"D", "S">>
TitleMiss == <<"f", "x">>

Event(id, title, occurred, observed) ==
    [source |-> "github", resource_type |-> "repo_issue", resource_id |-> "a/b",
     event_type |-> "issue_updated", event_id |-> id,
     title |-> title, summary |-> <<>>,
     occurred_at |-> occurred, observed_at |-> observed]

\* what an adapter can return: two identities, the first once with a
\* matching and once with a non-matching title, with and without an
\* upstream time
EventUniverse ==
    {Event("1", TitleHit, None, 1), Event("1", TitleMiss, Some(2), 1),
     Event("2", TitleHit, Some(2), 1)}

\* a payload that carries the title after the identity fields
PayloadWithTitle(e) ==
    <<e.event_id, e.event_type, e.resource_id, e.resource_type, e.source,
      e.title>>

\* json.dumps(stable, sort_keys=True): the identity fields in key order
Payload(e) ==
    <<e.event_id, e.event_type, e.resource_id, e.resource_type, e.source>>

\* hashlib.sha256(payload).hexdigest(), its first eight digits, for the
\* payloads of the universe and for the same with a "title" key
Sha256Hex(payload) ==
    CASE payload = <<"1", "issue_updated", "a/b", "repo_issue", "github">>
           -> "6442c601"
      [] payload = <<"2", "issue_updated", "a/b", "repo_issue", "github">>
           -> "d3e20524"
      [] payload = <<"1", "issue_updated", "a/b", "repo_issue", "github", TitleHit>>
           -> "055b2c0d"
      [] payload = <<"1", "issue_updated", "a/b", "repo_issue", "github", TitleMiss>>
           -> "0f1a9311"
      [] payload = <<"2", "issue_updated", "a/b", "repo_issue", "github", TitleHit>>
           -> "dccb056d"
      [] payload = <<"2", "issue_updated", "a/b", "repo_issue", "github", TitleMiss>>
           -> "e13edcef"

fingerprint(e) == Sha256Hex(Payload(e))

Fingerprints == {fingerprint(e) : e \in EventUniverse}

\* the digests in ascending string order
HexAscending == <<"6442c601", "d3e20524">>

HexRank(fp) == CHOOSE i \in 1..Len(HexAscending) : HexAscending[i] = fp

(***************************************************************************)
(* RuleMatcher.match (rules/matcher.py).                                   *)
(***************************************************************************)
Whitespace == {" ", "\n", "\t"}

\* str.lower on the alphabet of the model
LowerChar(c) ==
    CASE c = "D" -> "d"
      [] c = "S" -> "s"
      [] c = "F" -> "f"
      [] c = "X" -> "x"
      [] OTHER -> c

Lower(s) == [i \in 1..Len(s) |-> LowerChar(s[i])]

RECURSIVE LStrip(_)
LStrip(s) ==
    IF s # <<>> /\ Head(s) \in Whitespace THEN LStrip(Tail(s)) ELSE s

RECURSIVE RStrip(_)
RStrip(s) ==
    IF s # <<>> /\ s[Len(s)] \in Whitespace
    THEN RStrip(SubSeq(s, 1, Len(s) - 1))
    ELSE s

\* str.strip
Strip(s) == RStrip(LStrip(s))

\* k in haystack
IsSubstring(k, h) ==
    \E i \in 1..(Len(h) - Len(k) + 1) : SubSeq(h, i, i + Len(k) - 1) = k

RuleMatch(k) ==
    [rule_id |-> <<"keyword:">> \o k,
     reason |-> <<"matched keyword '">> \o k \o <<"'">>]

\* lines 24-31: the keyword loop
RECURSIVE MatchKeywords(_, _)
MatchKeywords(haystack, kws) ==
    IF kws = <<>> THEN <<>>
    ELSE LET k == Lower(Strip(Head(kws)))
             rest == MatchKeywords(haystack, Tail(kws))
         IN  IF k = <<>> THEN rest
             ELSE IF IsSubstring(k, haystack) THEN <<RuleMatch(k)>> \o rest
             ELSE rest

\* a haystack of the title alone
HaystackOfTitle(e) == Lower(e.title)

\* line 23: f"{event.title}\n{event.summary}".lower()
Haystack(e) == Lower(e.title \o <<"\n">> \o e.summary)

\* line 20: the truth value of source_allowlist, an optional tuple: None
\* and the empty tuple are falsy
Truthy(source_allowlist) ==
    source_allowlist # None /\ source_allowlist[1] # <<>>

\* RuleMatcher(keywords, source_allowlist).match(e)
RuleMatcherMatch(keywords, source_allowlist, e) ==
    IF Truthy(source_allowlist) /\ e.source \notin Range(source_allowlist[1])
    THEN <<>>
    ELSE MatchKeywords(Haystack(e), keywords)

\* the match of the runner's matcher
match(e) == RuleMatcherMatch(Keywords, SourceAllowlist, e)

(***************************************************************************)
(* events.sort(key=...) of run_once: a stable sort by                      *)
(* (occurred_at or observed_at, fingerprint).                              *)
(***************************************************************************)
SortTime(e) == IF e.occurred_at # None THEN e.occurred_at[1] ELSE e.observed_at

\* a key without the fingerprint
TimeLeq(a, b) == SortTime(a) <= SortTime(b)

SortKeyLeq(a, b) ==
    \/ SortTime(a) < SortTime(b)
    \/ /\ SortTime(a) = SortTime(b)
       /\ HexRank(fingerprint(a)) <= HexRank(fingerprint(b))

\* e goes behind every element whose key is not greater (stability)
InsertSorted(s, e) ==
    LET k == Cardinality({i \in 1..Len(s) : SortKeyLeq(s[i], e)})
    IN  SubSeq(s, 1, k) \o <<e>> \o SubSeq(s, k + 1, Len(s))

\* the list as the adapter returned it
AdapterOrder(s) == s

RECURSIVE SortEvents(_)
SortEvents(s) ==
    IF s = <<>> THEN <<>>
    ELSE InsertSorted(SortEvents(SubSeq(s, 1, Len(s) - 1)), s[Len(s)])

\* the lists a poll may return
Batches == UNION {[1..n -> EventUniverse] : n \in 0..MaxBatch}

(***************************************************************************)
(* State.                                                                  *)
(***************************************************************************)
VARIABLES
    schema,            \* the four tables exist (ensure_schema has run)
    cursors,           \* table cursors: source_key -> cursor, Null = no row
    seen_events,       \* table seen_events: the fingerprints
    first_seen_at,     \* table seen_events: first_seen_at of a fingerprint
    alerts,            \* table alerts: rows keyed by fingerprint
    notify_failures,   \* table notify_failures: rows in id order
    record_unmatched_as_seen,   \* Runner.record_unmatched_as_seen
    run,               \* per runner: the locals of run_once/_process_event
    sent,              \* history: send calls per (fingerprint, channel)
    raised,            \* history: send calls that raised, per the same
    saved,             \* history: save_alert calls per fingerprint
    polled,            \* history: the last poll of each source key
    cycles,            \* run_once calls started
    crashes            \* process stops

store == <<schema, cursors, seen_events, first_seen_at, alerts, notify_failures>>
vars == <<schema, cursors, seen_events, first_seen_at, alerts,
          notify_failures,
          record_unmatched_as_seen, run, sent, raised, saved, polled, cycles,
          crashes>>

SourceKeys == Range(Sources)
Channels == Range(Notifiers)

(***************************************************************************)
(* Reports (runner.py: SourceRunReport, RunOnceReport,                     *)
(* _ProcessEventReport).  Times and durations are left out.                *)
(***************************************************************************)
ZeroCounters ==
    [events_fetched |-> 0, events_processed |-> 0, events_skipped_seen |-> 0,
     events_matched |-> 0, alerts_created |-> 0, notify_attempts |-> 0,
     notify_successes |-> 0, notify_failures |-> 0]

ZeroTotals ==
    [events_fetched |-> 0, events_processed |-> 0, events_skipped_seen |-> 0,
     events_matched |-> 0, alerts_created |-> 0, notify_attempts |-> 0,
     notify_successes |-> 0, notify_failures |-> 0, source_errors |-> 0]

ZeroNotify == [notify_attempts |-> 0, notify_successes |-> 0, notify_failures |-> 0]

ProcessEventReport(skipped, matched, created, n) ==
    [processed |-> TRUE, skipped_seen |-> skipped, matched |-> matched,
     alert_created |-> created, notify_attempts |-> n.notify_attempts,
     notify_successes |-> n.notify_successes,
     notify_failures |-> n.notify_failures]

\* a count that leaves out the failed sends
CountEventNoFailures(cnt, r) ==
    IF ~r.processed THEN cnt
    ELSE [cnt EXCEPT
            !.events_processed = @ + 1,
            !.events_skipped_seen = IF r.skipped_seen THEN @ + 1 ELSE @,
            !.events_matched = IF r.matched THEN @ + 1 ELSE @,
            !.alerts_created = IF r.alert_created THEN @ + 1 ELSE @,
            !.notify_attempts = @ + r.notify_attempts,
            !.notify_successes = @ + r.notify_successes]

\* run_once, the body of "for event in events" after _process_event returned
CountEvent(cnt, r) ==
    IF ~r.processed THEN cnt
    ELSE [cnt EXCEPT
            !.events_processed = @ + 1,
            !.events_skipped_seen = IF r.skipped_seen THEN @ + 1 ELSE @,
            !.events_matched = IF r.matched THEN @ + 1 ELSE @,
            !.alerts_created = IF r.alert_created THEN @ + 1 ELSE @,
            !.notify_attempts = @ + r.notify_attempts,
            !.notify_successes = @ + r.notify_successes,
            !.notify_failures = @ + r.notify_failures]

SourceRunReport(key, before, after, cnt, error) ==
    [source_key |-> key, cursor_before |-> before, cursor_after |-> after,
     events_fetched |-> cnt.events_fetched,
     events_processed |-> cnt.events_processed,
     events_skipped_seen |-> cnt.events_skipped_seen,
     events_matched |-> cnt.events_matched,
     alerts_created |-> cnt.alerts_created,
     notify_attempts |-> cnt.notify_attempts,
     notify_successes |-> cnt.notify_successes,
     notify_failures |-> cnt.notify_failures,
     error |-> error]

\* run_once, totals[...] += ... of a source whose poll succeeded
AddTotals(t, cnt) ==
    [t EXCEPT
       !.events_fetched = @ + cnt.events_fetched,
       !.events_processed = @ + cnt.events_processed,
       !.events_skipped_seen = @ + cnt.events_skipped_seen,
       !.events_matched = @ + cnt.events_matched,
       !.alerts_created = @ + cnt.alerts_created,
       !.notify_attempts = @ + cnt.notify_attempts,
       !.notify_successes = @ + cnt.notify_successes,
       !.notify_failures = @ + cnt.notify_failures]

\* a report that leaves out the sources whose poll raised
RunOnceReportOkOnly(reports, t) ==
    [sources |-> SelectSeq(reports, LAMBDA r : r.error = Null),
     events_fetched |-> t.events_fetched,
     events_processed |-> t.events_processed,
     events_skipped_seen |-> t.events_skipped_seen,
     events_matched |-> t.events_matched,
     alerts_created |-> t.alerts_created,
     notify_attempts |-> t.notify_attempts,
     notify_successes |-> t.notify_successes,
     notify_failures |-> t.notify_failures,
     source_errors |-> t.source_errors]

\* lines 213-229
RunOnceReport(reports, t) ==
    [sources |-> reports,
     events_fetched |-> t.events_fetched,
     events_processed |-> t.events_processed,
     events_skipped_seen |-> t.events_skipped_seen,
     events_matched |-> t.events_matched,
     alerts_created |-> t.alerts_created,
     notify_attempts |-> t.notify_attempts,
     notify_successes |-> t.notify_successes,
     notify_failures |-> t.notify_failures,
     source_errors |-> t.source_errors]

(***************************************************************************)
(* SqliteStateStore (state/sqlite_store.py).                               *)
(***************************************************************************)
get_cursor(key) == cursors[key]

\* an INSERT OR IGNORE: the row of a key that has one is kept
set_cursor_ignore(key, cursor) ==
    IF cursors[key] # Null THEN cursors ELSE [cursors EXCEPT ![key] = cursor]

\* INSERT ... ON CONFLICT(source_key) DO UPDATE SET cursor
set_cursor(key, cursor) == [cursors EXCEPT ![key] = cursor]

\* a has_seen that finds no row
has_seen_never(fp) == FALSE

has_seen(fp) == fp \in seen_events

\* a mark_seen whose insert is lost
mark_seen_lost(fp) == seen_events

\* INSERT OR IGNORE
mark_seen(fp) == seen_events \cup {fp}

\* an INSERT OR REPLACE: the row of a marked fingerprint is written anew
first_seen_at_replaced(fp, now) == [first_seen_at EXCEPT ![fp] = Some(now)]

\* INSERT OR IGNORE, the column first_seen_at: now for a new row, a row
\* already there is kept
first_seen_at_marked(fp, now) ==
    IF fp \in seen_events THEN first_seen_at
    ELSE [first_seen_at EXCEPT ![fp] = Some(now)]

\* a save_alert whose insert is lost
save_alert_lost(alert) == alerts

\* a plain INSERT that keeps the row already there
save_alert_insert(alert) == alerts \cup {alert}

\* INSERT OR REPLACE on the primary key fingerprint
save_alert(alert) ==
    {a \in alerts : a.fingerprint # alert.fingerprint} \cup {alert}

\* an insert that replaces the rows the fingerprint already has
record_notify_failure_replace(fp, channel, error) ==
    Append(SelectSeq(notify_failures, LAMBDA r : r.fingerprint # fp),
           [fingerprint |-> fp, channel |-> channel, error |-> error])

\* INSERT into notify_failures, whose key is an autoincrement id
record_notify_failure(fp, channel, error) ==
    Append(notify_failures,
           [fingerprint |-> fp, channel |-> channel, error |-> error])

(***************************************************************************)
(* The locals of one runner, the outcome of its last run_once (report, or  *)
(* failed_op: the State Store operation whose error it propagated), and    *)
(* histories: of the current source's turn, seen0, the seen-set when the   *)
(* poll returned, and ops, the save_alert and send calls made since; of    *)
(* the cycle, returned, the fingerprints its polls have returned; prev,    *)
(* the same of the cycle before; calls, the State Store operations a       *)
(* client other than run_once has completed, with what they returned;      *)
(* matched, the last call of a RuleMatcher's match outside run_once;        *)
(* fetch, a call of a source adapter's poll against upstream pages;        *)
(* http, a call of HttpClient.get; scan, the page loop of a call of the    *)
(* ModelScope adapter's poll.                                              *)
(***************************************************************************)
InitLocal ==
    [pc |-> "idle", sidx |-> 0, cursor |-> Null, cursor_after |-> Null,
     events |-> <<>>, new_cursor |-> Null, eidx |-> 0, nidx |-> 0,
     alert |-> None, n |-> ZeroNotify, cnt |-> ZeroCounters,
     source_reports |-> <<>>, totals |-> ZeroTotals, report |-> None,
     failed_op |-> Null, seen0 |-> {}, ops |-> <<>>,
     returned |-> {}, prev |-> {}, calls |-> <<>>, matched |-> None,
     fetch |-> None, http |-> None, scan |-> None]

Init ==
    /\ schema = FALSE
    /\ cursors = [k \in SourceKeys |-> Null]
    /\ seen_events = {}
    /\ first_seen_at = [fp \in Fingerprints |-> None]
    /\ alerts = {}
    /\ notify_failures = <<>>
    /\ record_unmatched_as_seen \in BOOLEAN
    /\ run = [p \in Runners |-> InitLocal]
    /\ sent = [x \in Fingerprints \X Channels |-> 0]
    /\ raised = [x \in Fingerprints \X Channels |-> 0]
    /\ saved = [fp \in Fingerprints |-> 0]
    /\ polled = [k \in SourceKeys |-> None]
    /\ cycles = 0
    /\ crashes = 0

\* the event _process_event is working on
CurrentEvent(l) == l.events[l.eidx]

(***************************************************************************)
(* Runner.run_once (runner.py).                                            *)
(***************************************************************************)
\* lines 97-113: ensure_schema, then the empty report accumulators
BeginCycle(p) ==
    /\ run[p].pc = "idle"
    /\ cycles < MaxCycles
    /\ schema' = TRUE
    /\ run' = [run EXCEPT ![p] = [InitLocal EXCEPT !.pc = "source", !.sidx = 1,
                                                    !.prev = run[p].returned]]
    /\ cycles' = cycles + 1
    /\ UNCHANGED <<cursors, seen_events, first_seen_at, alerts, notify_failures,
                   record_unmatched_as_seen, sent, raised, saved, polled, crashes>>

\* the fingerprints of a list of events
FingerprintsOf(events) == {fingerprint(events[i]) : i \in 1..Len(events)}

\* the new cursor is written as soon as the poll has returned
CursorsWrittenAtPoll(key, new_cursor) ==
    IF new_cursor # Null THEN set_cursor(key, new_cursor) ELSE cursors

\* lines 132-135: the cursors table when the poll has returned: no write
CursorsAfterPoll(key, new_cursor) == cursors

\* lines 116-135 and 166: get_cursor, a poll that returns one of batches
\* and one of new_cursors, the sort
PollOkWith(p, batches, new_cursors) ==
    LET l == run[p] IN
    /\ l.pc = "source"
    /\ l.sidx <= Len(Sources)
    /\ LET key == Sources[l.sidx]
           cursor == get_cursor(key)
       IN  \E batch \in batches, nc \in new_cursors :
             /\ cursors' = CursorsAfterPoll(key, nc)
             /\ run' = [run EXCEPT ![p] =
                          [l EXCEPT !.pc = "event",
                                    !.cursor = cursor,
                                    !.cursor_after = IF nc # Null THEN nc ELSE cursor,
                                    !.events = SortEvents(batch),
                                    !.new_cursor = nc,
                                    !.eidx = 1,
                                    !.cnt = [ZeroCounters EXCEPT
                                               !.events_fetched = Len(batch)],
                                    !.seen0 = seen_events,
                                    !.returned = @ \cup FingerprintsOf(batch),
                                    !.ops = <<>>]]
             /\ polled' = [polled EXCEPT ![key] =
                             Some([cursor |-> cursor, new_cursor |-> nc,
                                   raised |-> FALSE, fetched |-> Len(batch)])]
    /\ UNCHANGED <<schema, seen_events, first_seen_at, alerts,
                   notify_failures, record_unmatched_as_seen, sent, raised, saved, cycles, crashes>>

\* the same with the new cursor "c1" or None
PollOkFrom(p, batches) == PollOkWith(p, batches, Cursors \cup {Null})

\* a poll that returns any list of the universe
PollOk(p) == PollOkFrom(p, Batches)

\* a break in place of the continue: the cycle ends at the failed source
AbortAfterPollError(sidx) == Len(Sources) + 1

\* line 163: the continue that ends the turn of a source whose poll raised
SourceAfterPollError(sidx) == sidx + 1

\* cursor_after left at None instead of the cursor read (line 121)
ErrorReportNoCursor(key, cursor) ==
    SourceRunReport(key, cursor, Null, ZeroCounters, ErrorText)

\* lines 145-162: the report of a source whose poll raised
ErrorReport(key, cursor) ==
    SourceRunReport(key, cursor, cursor, ZeroCounters, ErrorText)

\* lines 116-132 and 136-163: get_cursor, a poll that raises
PollRaise(p) ==
    LET l == run[p] IN
    /\ l.pc = "source"
    /\ l.sidx <= Len(Sources)
    /\ LET key == Sources[l.sidx]
           cursor == get_cursor(key)
       IN  /\ run' = [run EXCEPT ![p] =
                        [l EXCEPT !.sidx = SourceAfterPollError(l.sidx),
                                  !.totals.source_errors = @ + 1,
                                  !.source_reports =
                                      Append(@, ErrorReport(key, cursor))]]
           /\ polled' = [polled EXCEPT ![key] =
                           Some([cursor |-> cursor, new_cursor |-> Null,
                                 raised |-> TRUE, fetched |-> 0])]
    /\ UNCHANGED <<schema, cursors, seen_events, first_seen_at, alerts,
                   notify_failures, record_unmatched_as_seen, sent, raised, saved, cycles, crashes>>

(***************************************************************************)
(* Runner._process_event (runner.py), and the counting of its result in    *)
(* run_once (lines 168-180).                                               *)
(***************************************************************************)
\* the event is done: count its report and go to the next event
EventDone(l, r) ==
    [l EXCEPT !.pc = "event", !.eidx = @ + 1, !.nidx = 0, !.alert = None,
              !.n = ZeroNotify, !.cnt = CountEvent(@, r)]

\* lines 232-242: has_seen, and the early return for a seen fingerprint
CheckSeen(p) ==
    LET l == run[p] IN
    /\ l.pc = "event"
    /\ l.eidx <= Len(l.events)
    /\ run' = [run EXCEPT ![p] =
                 IF has_seen(fingerprint(CurrentEvent(l)))
                 THEN EventDone(l, ProcessEventReport(TRUE, FALSE, FALSE, ZeroNotify))
                 ELSE [l EXCEPT !.pc = "match"]]
    /\ UNCHANGED <<schema, cursors, seen_events, first_seen_at, alerts,
                   notify_failures, record_unmatched_as_seen, sent, raised, saved, polled, cycles,
                   crashes>>

\* an alert that names the first notifier's channel only
BuildAlertFirstChannel(event, matches) ==
    [fingerprint |-> fingerprint(event), event |-> event,
     matched_rules |-> matches, channels |-> SubSeq(Notifiers, 1, 1),
     created_at |-> cycles]

\* an alert that keeps the first match only
BuildAlertFirstRule(event, matches) ==
    [fingerprint |-> fingerprint(event), event |-> event,
     matched_rules |-> SubSeq(matches, 1, 1), channels |-> Notifiers,
     created_at |-> cycles]

\* lines 258-274: the alert of a matched event; the clock _utc_now() is
\* read as the number of cycles started
BuildAlert(event, matches) ==
    [fingerprint |-> fingerprint(event), event |-> event,
     matched_rules |-> matches, channels |-> Notifiers,
     created_at |-> cycles]

\* an unmatched event is never recorded as seen
SeenUnmatchedIgnored(fp) == seen_events

\* an unmatched event is recorded as seen whatever the configuration
SeenUnmatchedAlways(fp) == mark_seen(fp)

\* lines 246-247: the seen-set after an unmatched event
SeenAfterUnmatched(fp) ==
    IF record_unmatched_as_seen THEN mark_seen(fp) ELSE seen_events

\* lines 244-276: match; unmatched: mark_seen if configured, return;
\* matched: build the alert and save_alert
MatchEvent(p) ==
    LET l == run[p]
        event == CurrentEvent(l)
        fp == fingerprint(event)
        matches == match(event)
    IN
    /\ l.pc = "match"
    /\ IF matches = <<>>
       THEN /\ seen_events' = SeenAfterUnmatched(fp)
            /\ first_seen_at' = IF record_unmatched_as_seen
                                THEN first_seen_at_marked(fp, cycles)
                                ELSE first_seen_at
            /\ run' = [run EXCEPT ![p] =
                         EventDone(l, ProcessEventReport(FALSE, FALSE, FALSE, ZeroNotify))]
            /\ UNCHANGED <<alerts, saved>>
       ELSE /\ alerts' = save_alert(BuildAlert(event, matches))
            /\ saved' = [saved EXCEPT ![fp] = @ + 1]
            /\ run' = [run EXCEPT ![p] =
                         [l EXCEPT !.pc = "send", !.nidx = 1,
                                   !.alert = Some(BuildAlert(event, matches)),
                                   !.n = ZeroNotify,
                                   !.ops = Append(@, [op |-> "save_alert",
                                                      alert |-> BuildAlert(event, matches)])]]
            /\ UNCHANGED <<seen_events, first_seen_at>>
    /\ UNCHANGED <<schema, cursors, notify_failures, record_unmatched_as_seen,
                   sent, raised, polled, cycles, crashes>>

\* a failed send ends the notifier loop
StopAfterFailure(nidx) == Len(Notifiers) + 1

\* lines 281-304: the notifier loop goes on after a failed send
NotifierAfterFailure(nidx) == nidx + 1

\* the history entry of notifier.send(alert) on a channel
SendOp(alert, channel) ==
    [op |-> "send", fingerprint |-> alert.fingerprint, channel |-> channel]

\* lines 281-290: one turn of the notifier loop up to the outcome of send
Send(p) ==
    LET l == run[p]
        alert == l.alert[1]
        channel == Notifiers[l.nidx]
    IN
    /\ l.pc = "send"
    /\ l.nidx <= Len(Notifiers)
    /\ IF channel \notin Range(alert.channels)
       THEN /\ run' = [run EXCEPT ![p] = [l EXCEPT !.nidx = @ + 1]]
            /\ UNCHANGED <<sent, raised>>
       ELSE /\ sent' = [sent EXCEPT ![<<alert.fingerprint, channel>>] = @ + 1]
            /\ \E ok \in BOOLEAN :
                 IF ok
                 THEN /\ run' = [run EXCEPT ![p] =
                                   [l EXCEPT !.n.notify_attempts = @ + 1,
                                             !.n.notify_successes = @ + 1,
                                             !.nidx = @ + 1,
                                             !.ops = Append(@, SendOp(alert, channel))]]
                      /\ UNCHANGED raised
                 ELSE /\ run' = [run EXCEPT ![p] =
                                   [l EXCEPT !.n.notify_attempts = @ + 1,
                                             !.n.notify_failures = @ + 1,
                                             !.pc = "record_failure",
                                             !.ops = Append(@, SendOp(alert, channel))]]
                      /\ raised' = [raised EXCEPT
                                      ![<<alert.fingerprint, channel>>] = @ + 1]
    /\ UNCHANGED <<schema, cursors, seen_events, first_seen_at, alerts,
                   notify_failures, record_unmatched_as_seen, saved, polled, cycles, crashes>>

\* lines 291-304: record_notify_failure in the except branch
RecordFailure(p) ==
    LET l == run[p] IN
    /\ l.pc = "record_failure"
    /\ notify_failures' =
           record_notify_failure(l.alert[1].fingerprint, Notifiers[l.nidx], ErrorText)
    /\ run' = [run EXCEPT ![p] =
                 [l EXCEPT !.pc = "send", !.nidx = NotifierAfterFailure(l.nidx)]]
    /\ UNCHANGED <<schema, cursors, seen_events, first_seen_at, alerts,
                   record_unmatched_as_seen, sent, raised, saved, polled, cycles,
                   crashes>>

\* mark_seen only when no delivery failed
SeenOnlyIfDelivered(fp, n) ==
    IF n.notify_failures = 0 THEN mark_seen(fp) ELSE seen_events

\* line 306: the seen-set after the notifier loop, whatever n counted
SeenAfterNotify(fp, n) == mark_seen(fp)

\* lines 306-315: mark_seen after the notifier loop, and the return
MarkSeen(p) ==
    LET l == run[p] IN
    /\ l.pc = "send"
    /\ l.nidx > Len(Notifiers)
    /\ seen_events' = SeenAfterNotify(l.alert[1].fingerprint, l.n)
    /\ first_seen_at' = first_seen_at_marked(l.alert[1].fingerprint, cycles)
    /\ run' = [run EXCEPT ![p] =
                 EventDone(l, ProcessEventReport(FALSE, TRUE, TRUE, l.n))]
    /\ UNCHANGED <<schema, cursors, alerts, notify_failures,
                   record_unmatched_as_seen, sent, raised, saved, polled, cycles,
                   crashes>>

(***************************************************************************)
(* Runner.run_once, the end of a source's turn and of the cycle.           *)
(***************************************************************************)
\* the new cursor is never written
PersistCursorNever(key, new_cursor) == cursors

\* lines 182-183: the cursors table after the events of a poll
PersistCursor(key, new_cursor) ==
    IF new_cursor # Null THEN set_cursor(key, new_cursor) ELSE cursors

\* lines 182-211: set_cursor, the source's report, the totals
SetCursor(p) ==
    LET l == run[p]
        key == Sources[l.sidx]
    IN
    /\ l.pc = "event"
    /\ l.eidx > Len(l.events)
    /\ cursors' = PersistCursor(key, l.new_cursor)
    /\ run' = [run EXCEPT ![p] =
                 [l EXCEPT !.pc = "source", !.sidx = @ + 1,
                           !.cursor = Null, !.cursor_after = Null,
                           !.events = <<>>, !.new_cursor = Null, !.eidx = 0,
                           !.cnt = ZeroCounters, !.seen0 = {}, !.ops = <<>>,
                           !.source_reports =
                               Append(@, SourceRunReport(key, l.cursor, l.cursor_after,
                                                         l.cnt, Null)),
                           !.totals = AddTotals(@, l.cnt)]]
    /\ UNCHANGED <<schema, seen_events, first_seen_at, alerts, notify_failures,
                   record_unmatched_as_seen, sent, raised, saved, polled, cycles,
                   crashes>>

\* lines 213-229: the report is returned
Finish(p) ==
    LET l == run[p] IN
    /\ l.pc = "source"
    /\ l.sidx > Len(Sources)
    /\ run' = [run EXCEPT ![p] =
                 [InitLocal EXCEPT
                    !.report = Some(RunOnceReport(l.source_reports, l.totals)),
                    !.returned = l.returned, !.prev = l.prev]]
    /\ UNCHANGED <<schema, cursors, seen_events, first_seen_at, alerts,
                   notify_failures, record_unmatched_as_seen, sent, raised, saved, polled, cycles,
                   crashes>>

(***************************************************************************)
(* The process stops in the middle of a cycle and is started again: the    *)
(* tables stay, the locals are lost.                                       *)
(***************************************************************************)
Crash(p) ==
    /\ run[p].pc # "idle"
    /\ crashes < MaxCrashes
    /\ crashes' = crashes + 1
    /\ run' = [run EXCEPT ![p] = InitLocal]
    /\ UNCHANGED <<schema, cursors, seen_events, first_seen_at, alerts,
                   notify_failures, record_unmatched_as_seen, sent, raised, saved, polled, cycles>>

(***************************************************************************)
(* What "for event in events: _process_event(event)" calls and leaves in   *)
(* the seen-set, as a function of the sorted list and the seen-set it      *)
(* starts from (lines 167-168 and 231-315).                                *)
(***************************************************************************)
RECURSIVE Replay(_, _)
Replay(events, seen) ==
    IF events = <<>> THEN [ops |-> <<>>, seen |-> seen]
    ELSE LET e == Head(events)
             fp == fingerprint(e)
         IN  IF fp \in seen THEN Replay(Tail(events), seen)
             ELSE IF match(e) = <<>>
             THEN Replay(Tail(events),
                         IF record_unmatched_as_seen THEN seen \cup {fp} ELSE seen)
             ELSE LET rest == Replay(Tail(events), seen \cup {fp})
                      alert == BuildAlert(e, match(e))
                  IN  [ops |-> <<[op |-> "save_alert", alert |-> alert]>>
                                 \o [i \in 1..Len(Notifiers) |->
                                        SendOp(alert, Notifiers[i])]
                                 \o rest.ops,
                       seen |-> rest.seen]

(***************************************************************************)
(* A State Store operation raises (sqlite3.Error: the file is locked,      *)
(* unreadable, full).  run_once and _process_event call the store outside  *)
(* any try block, and record_notify_failure inside an except block, so the *)
(* error leaves run_once; the operation's transaction is rolled back.      *)
(***************************************************************************)
\* the State Store operation the runner calls next, Null if its next call
\* is a poll, a send or the return
NextStoreOp(l) ==
    CASE l.pc = "idle" -> "ensure_schema"
      [] l.pc = "source" /\ l.sidx <= Len(Sources) -> "get_cursor"
      [] l.pc = "event" /\ l.eidx <= Len(l.events) -> "has_seen"
      [] l.pc = "event" /\ l.eidx > Len(l.events) /\ l.new_cursor # Null
           -> "set_cursor"
      [] l.pc = "match" /\ match(CurrentEvent(l)) # <<>> -> "save_alert"
      [] l.pc = "match" /\ match(CurrentEvent(l)) = <<>>
                        /\ record_unmatched_as_seen -> "mark_seen"
      [] l.pc = "send" /\ l.nidx > Len(Notifiers) -> "mark_seen"
      [] l.pc = "record_failure" -> "record_notify_failure"
      [] OTHER -> Null

\* the error is caught and logged where it was raised, and the cycle goes on
SwallowStoreError(l, op) == [l EXCEPT !.failed_op = op]

\* the error propagates: run_once ends there, its locals are gone and it
\* returns nothing
PropagateStoreError(l, op) == [InitLocal EXCEPT !.failed_op = op]

StoreRaise(p) ==
    LET l == run[p] IN
    /\ NextStoreOp(l) # Null
    /\ l.pc = "idle" => cycles < MaxCycles
    /\ cycles' = IF l.pc = "idle" THEN cycles + 1 ELSE cycles
    /\ run' = [run EXCEPT ![p] = PropagateStoreError(l, NextStoreOp(l))]
    /\ UNCHANGED <<schema, cursors, seen_events, first_seen_at, alerts,
                   notify_failures, record_unmatched_as_seen, sent, raised, saved, polled, crashes>>

(***************************************************************************)
(* Specifications.                                                         *)
(***************************************************************************)
\* one step of run_once with the polls returning lists of batches
StepFrom(p, batches) ==
    \/ BeginCycle(p)
    \/ PollOkFrom(p, batches)
    \/ PollRaise(p)
    \/ CheckSeen(p)
    \/ MatchEvent(p)
    \/ Send(p)
    \/ RecordFailure(p)
    \/ MarkSeen(p)
    \/ SetCursor(p)
    \/ Finish(p)

Step(p) ==
    \/ BeginCycle(p)
    \/ PollOk(p)
    \/ PollRaise(p)
    \/ CheckSeen(p)
    \/ MatchEvent(p)
    \/ Send(p)
    \/ RecordFailure(p)
    \/ MarkSeen(p)
    \/ SetCursor(p)
    \/ Finish(p)

\* cycles run one after another to completion
Next == \E p \in Runners : Step(p)

Spec == Init /\ [][Next]_vars

\* the same with process stops, for the runner as build_runner makes it
\* (record_unmatched_as_seen at its default)
InitDefault == Init /\ record_unmatched_as_seen = TRUE

NextCrash == \E p \in Runners : Step(p) \/ Crash(p)

SpecCrash == InitDefault /\ [][NextCrash]_vars

\* cycles run one after another and the worker thread keeps running: a
\* step that can be taken is taken (poll and send are blocking calls that
\* return or raise); the runner as build_runner makes it
SpecLive == InitDefault /\ [][Next]_vars /\ WF_vars(Next)

\* the same with State Store operations that raise, for the runner as
\* build_runner makes it
NextStore == \E p \in Runners : Step(p) \/ StoreRaise(p)

SpecStore == InitDefault /\ [][NextStore]_vars

\* two run_once executions against one State Store (two processes on one
\* sqlite file), interleaved at single store operations, polls and sends;
\* the sources return an event with a matching title or nothing
Workers == {"r1", "r2"}

OverlapBatches == {<<>>, <<Event("1", TitleHit, None, 1)>>}

InitOverlap ==
    /\ schema = FALSE
    /\ cursors = [k \in SourceKeys |-> Null]
    /\ seen_events = {}
    /\ first_seen_at = [fp \in Fingerprints |-> None]
    /\ alerts = {}
    /\ notify_failures = <<>>
    /\ record_unmatched_as_seen = TRUE
    /\ run = [p \in Workers |-> InitLocal]
    /\ sent = [x \in Fingerprints \X Channels |-> 0]
    /\ raised = [x \in Fingerprints \X Channels |-> 0]
    /\ saved = [fp \in Fingerprints |-> 0]
    /\ polled = [k \in SourceKeys |-> None]
    /\ cycles = 0
    /\ crashes = 0

NextOverlap == \E p \in Workers : StepFrom(p, OverlapBatches)

SpecOverlap == InitOverlap /\ [][NextOverlap]_vars

\* cycles run one after another, the sources returning events that tie on
\* the sort key: two of one fingerprint and one time with different
\* titles, and one of another fingerprint at the same time
TiedUniverse ==
    {Event("1", TitleHit, None, 1), Event("1", TitleMiss, None, 1),
     Event("2", TitleHit, Some(1), 1)}

TiedBatches == UNION {[1..n -> TiedUniverse] : n \in 0..MaxBatch}

NextTied == \E p \in Runners : StepFrom(p, TiedBatches)

SpecTied == InitDefault /\ [][NextTied]_vars

(***************************************************************************)
(* The State Store under a client that calls its operations in any order   *)
(* after ensure_schema (state/store.py: StateStore; the test cases of      *)
(* test_state_sqlite.py are two such clients).  The time an operation      *)
(* reads is the number of the call.                                        *)
(***************************************************************************)
\* the cursors the client stores: two strings and None
ApiCursors == {"c1", "c2", Null}

\* a completed call: the operation, its key (source key or fingerprint),
\* the cursor passed or returned, and what has_seen returned
Call(op, key, cursor, found) ==
    [op |-> op, key |-> key, cursor |-> cursor, found |-> found]

\* the client's next call returns: the call is recorded
Returned(p, call) ==
    run' = [run EXCEPT ![p] = [@ EXCEPT !.calls = Append(@, call)]]

CanCall(p) == run[p].pc = "idle" /\ Len(run[p].calls) < MaxCalls

\* CREATE TABLE IF NOT EXISTS, four times
ApiEnsureSchema(p) ==
    /\ CanCall(p)
    /\ schema' = TRUE
    /\ Returned(p, Call("ensure_schema", Null, Null, FALSE))
    /\ UNCHANGED <<cursors, seen_events, first_seen_at, alerts, notify_failures,
                   record_unmatched_as_seen, sent, raised, saved, polled, cycles,
                   crashes>>

ApiGetCursor(p) ==
    /\ CanCall(p) /\ schema
    /\ \E key \in SourceKeys :
          Returned(p, Call("get_cursor", key, get_cursor(key), FALSE))
    /\ UNCHANGED <<schema, cursors, seen_events, first_seen_at, alerts,
                   notify_failures, record_unmatched_as_seen, sent, raised,
                   saved, polled, cycles, crashes>>

ApiSetCursor(p) ==
    /\ CanCall(p) /\ schema
    /\ \E key \in SourceKeys, cursor \in ApiCursors :
          /\ cursors' = set_cursor(key, cursor)
          /\ Returned(p, Call("set_cursor", key, cursor, FALSE))
    /\ UNCHANGED <<schema, seen_events, first_seen_at, alerts,
                   notify_failures, record_unmatched_as_seen, sent, raised,
                   saved, polled, cycles, crashes>>

ApiHasSeen(p) ==
    /\ CanCall(p) /\ schema
    /\ \E fp \in Fingerprints :
          Returned(p, Call("has_seen", fp, Null, has_seen(fp)))
    /\ UNCHANGED <<schema, cursors, seen_events, first_seen_at, alerts,
                   notify_failures, record_unmatched_as_seen, sent, raised,
                   saved, polled, cycles, crashes>>

ApiMarkSeen(p) ==
    /\ CanCall(p) /\ schema
    /\ \E fp \in Fingerprints :
          /\ seen_events' = mark_seen(fp)
          /\ first_seen_at' = first_seen_at_marked(fp, Len(run[p].calls) + 1)
          /\ Returned(p, Call("mark_seen", fp, Null, FALSE))
    /\ UNCHANGED <<schema, cursors, alerts, notify_failures,
                   record_unmatched_as_seen, sent, raised, saved, polled, cycles,
                   crashes>>

ApiSaveAlert(p) ==
    /\ CanCall(p) /\ schema
    /\ \E e \in EventUniverse :
          /\ match(e) # <<>>
          /\ alerts' = save_alert(BuildAlert(e, match(e)))
          /\ Returned(p, Call("save_alert", fingerprint(e), Null, FALSE))
    /\ UNCHANGED <<schema, cursors, seen_events, first_seen_at,
                   notify_failures, record_unmatched_as_seen, sent, raised,
                   saved, polled, cycles, crashes>>

ApiRecordNotifyFailure(p) ==
    /\ CanCall(p) /\ schema
    /\ \E fp \in Fingerprints :
          /\ notify_failures' = record_notify_failure(fp, Notifiers[1], ErrorText)
          /\ Returned(p, Call("record_notify_failure", fp, Null, FALSE))
    /\ UNCHANGED <<schema, cursors, seen_events, first_seen_at, alerts,
                   record_unmatched_as_seen, sent, raised, saved, polled, cycles,
                   crashes>>

NextApi ==
    \E p \in Runners :
        \/ ApiEnsureSchema(p)
        \/ ApiGetCursor(p)
        \/ ApiSetCursor(p)
        \/ ApiHasSeen(p)
        \/ ApiMarkSeen(p)
        \/ ApiSaveAlert(p)
        \/ ApiRecordNotifyFailure(p)

SpecApi == InitDefault /\ [][NextApi]_vars

(***************************************************************************)
(* RuleMatcher.match as a pure function: a matcher is built from a         *)
(* keyword tuple and an optional allow-list and applied to an event        *)
(* (rules/matcher.py; test_rules.py builds one so).                        *)
(***************************************************************************)
\* keywords: empty, blank, case and whitespace variants of one keyword,
\* one with a line break inside, others
KeywordUniverse ==
    {<<>>, <<" ">>, <<"d", "s">>, <<"D", "S">>, <<" ", "d", "s">>,
     <<"d", "\n", "s">>, <<"s">>, <<"x">>}

KeywordLists == UNION {[1..n -> KeywordUniverse] : n \in 0..MaxKeywords}

\* None, the empty tuple, and lists with and without "github"
Allowlists == {None, Some(<<>>), Some(<<"github">>), Some(<<"modelscope">>)}

\* events of two sources with titles and summaries over the alphabet
MatcherEvents ==
    {[Event("1", title, None, 1) EXCEPT !.summary = summary, !.source = source] :
        title \in {<<>>, <<"D">>, <<"D", "S">>, <<"f", "x">>},
        summary \in {<<>>, <<"s">>, <<"S", "x">>},
        source \in {"github", "huggingface"}}

RuleMatcherCall(p) ==
    /\ run[p].pc = "idle"
    /\ run[p].matched = None
    /\ \E keywords \in KeywordLists, source_allowlist \in Allowlists,
          event \in MatcherEvents :
          run' = [run EXCEPT ![p] = [@ EXCEPT !.matched =
                    Some([keywords |-> keywords,
                          source_allowlist |-> source_allowlist,
                          event |-> event,
                          matches |-> RuleMatcherMatch(keywords, source_allowlist,
                                                       event)])]]
    /\ UNCHANGED <<schema, cursors, seen_events, first_seen_at, alerts,
                   notify_failures, record_unmatched_as_seen, sent, raised,
                   saved, polled, cycles, crashes>>

NextMatch == \E p \in Runners : RuleMatcherCall(p)

SpecMatch == InitDefault /\ [][NextMatch]_vars

(***************************************************************************)
(* The source adapters' poll against an upstream that answers each page    *)
(* request as it likes (sources/github.py, huggingface.py, modelscope.py). *)
(* Times are numbers; an item is its id, the time of its updated_at,       *)
(* lastModified or last_modified, 0 for an item that has none, and pr:     *)
(* it has the key "pull_request".                                          *)
(***************************************************************************)
Adapters == {"issues", "pulls", "huggingface", "modelscope"}

\* a cursor string: the JSON object with one key, or None (key "none")
Cursor(key, at, ids) == [key |-> key, at |-> at, ids |-> ids]

\* the key under which an adapter's _encode_cursor writes
CursorKey(adapter) ==
    CASE adapter \in {"issues", "pulls"} -> "updated_after"
      [] adapter = "huggingface" -> "last_modified_after"
      [] adapter = "modelscope" -> "known_model_ids"

\* None, a watermark of each platform, a set of known model ids
PollCursors ==
    {Cursor("none", 0, {}), Cursor("updated_after", 2, {}),
     Cursor("last_modified_after", 2, {}), Cursor("known_model_ids", 0, {"1"})}

\* _decode_cursor of github.py and huggingface.py: the watermark, None for
\* no cursor and for a cursor without the adapter's key
DecodeWatermark(adapter, cursor) ==
    IF cursor.key = CursorKey(adapter) THEN Some(cursor.at) ELSE None

\* _decode_cursor of modelscope.py: the known ids
DecodeKnown(cursor) ==
    IF cursor.key = "known_model_ids" THEN cursor.ids ELSE {}

ItemUniverse ==
    {[id |-> "1", at |-> 1, pr |-> FALSE], [id |-> "2", at |-> 2, pr |-> FALSE],
     [id |-> "3", at |-> 3, pr |-> FALSE], [id |-> "4", at |-> 0, pr |-> FALSE],
     [id |-> "3", at |-> 3, pr |-> TRUE]}

\* what upstream answers to one page request: a list of items with or
\* without a next page advertised (Link rel="next"; for ModelScope a
\* total_count beyond the page), a body that is not what the adapter
\* expects, or an error raised by HttpClient.get
Responses ==
    {[status |-> "ok", items |-> items, next |-> next] :
        items \in UNION {[1..n -> ItemUniverse] : n \in 0..MaxItems},
        next \in BOOLEAN}
    \cup {[status |-> st, items |-> <<>>, next |-> FALSE] :
             st \in {"malformed", "error"}}

\* a filter that lets an item at the watermark through
IsNewOrEqual(since, at) == since = None \/ at >= since[1]

\* github.py 104, 169, huggingface.py 81: skip the item if
\* updated_at <= updated_after
IsNew(since, at) == since = None \/ at > since[1]

\* an event id made of the item's id and its update time: a later version
\* of item "1" gets the id "2"
SourceEventPerUpdate(adapter, item) ==
    [source |-> IF adapter \in {"issues", "pulls"} THEN "github" ELSE adapter,
     resource_type |-> CASE adapter = "issues" -> "repo_issue"
                         [] adapter = "pulls" -> "repo_pr"
                         [] OTHER -> "org_model",
     resource_id |-> "a/b",
     event_type |-> CASE adapter = "issues" -> "issue_updated"
                      [] adapter = "pulls" -> "pr_updated"
                      [] adapter = "huggingface" -> "model_updated"
                      [] OTHER -> "model_added",
     event_id |-> IF item.id = "1" /\ item.at > 1 THEN "2" ELSE item.id,
     occurred_at |-> IF item.at = 0 THEN None ELSE Some(item.at),
     raw |-> item]

\* the TrackerEvent an adapter builds from an item
SourceEvent(adapter, item) ==
    [source |-> IF adapter \in {"issues", "pulls"} THEN "github" ELSE adapter,
     resource_type |-> CASE adapter = "issues" -> "repo_issue"
                         [] adapter = "pulls" -> "repo_pr"
                         [] OTHER -> "org_model",
     resource_id |-> "a/b",
     event_type |-> CASE adapter = "issues" -> "issue_updated"
                      [] adapter = "pulls" -> "pr_updated"
                      [] adapter = "huggingface" -> "model_updated"
                      [] OTHER -> "model_added",
     event_id |-> item.id,
     occurred_at |-> IF item.at = 0 THEN None ELSE Some(item.at),
     raw |-> item]

\* the items of the pages in the order fetched
RECURSIVE ItemsOf(_)
ItemsOf(pages) ==
    IF pages = <<>> THEN <<>>
    ELSE ItemsOf(SubSeq(pages, 1, Len(pages) - 1)) \o pages[Len(pages)].items

\* github.py 98-99: the issues adapter skips the pull requests that the
\* issues listing contains
SkippedAsPull(adapter, it) == adapter = "issues" /\ it.pr

\* the time of the item handled last
LastKept(since, items) ==
    IF items = <<>> THEN since ELSE Some(items[Len(items)].at)

\* newest_updated_at after the item loop
RECURSIVE Newest(_, _)
Newest(since, items) ==
    IF items = <<>> THEN since
    ELSE LET n == Newest(since, SubSeq(items, 1, Len(items) - 1))
             at == items[Len(items)].at
         IN  IF n = None \/ at > n[1] THEN Some(at) ELSE n

\* PollResult of the timestamp adapters: the item loop and the new cursor
WatermarkResult(adapter, cursor, pages) ==
    LET since == DecodeWatermark(adapter, cursor)
        kept == SelectSeq(ItemsOf(pages),
                          LAMBDA it : /\ ~SkippedAsPull(adapter, it)
                                      /\ it.at # 0
                                      /\ IsNew(since, it.at))
        newest == Newest(since, kept)
    IN  [events |-> [i \in 1..Len(kept) |-> SourceEvent(adapter, kept[i])],
         new_cursor |-> IF newest # None
                        THEN Cursor(CursorKey(adapter), newest[1], {})
                        ELSE cursor]

\* a result whose cursor encodes the ids found in this poll only
KnownResultFoundOnly(cursor, pages) ==
    LET known == DecodeKnown(cursor)
        found == {ItemsOf(pages)[i].id : i \in 1..Len(ItemsOf(pages))}
        sorted == SelectSeq(<<"1", "2", "3", "4">>,
                            LAMBDA id : id \in found \ known)
        raw(id) == ItemsOf(pages)[
                      CHOOSE i \in 1..Len(ItemsOf(pages)) :
                          /\ ItemsOf(pages)[i].id = id
                          /\ \A j \in (i + 1)..Len(ItemsOf(pages)) :
                                ItemsOf(pages)[j].id # id]
    IN  [events |-> [i \in 1..Len(sorted) |->
                        SourceEvent("modelscope", raw(sorted[i]))],
         new_cursor |-> Cursor("known_model_ids", 0, found)]

\* PollResult of ModelScope: the ids not known before, in sorted order
KnownResult(cursor, pages) ==
    LET known == DecodeKnown(cursor)
        found == {ItemsOf(pages)[i].id : i \in 1..Len(ItemsOf(pages))}
        sorted == SelectSeq(<<"1", "2", "3", "4">>,
                            LAMBDA id : id \in found \ known)
        raw(id) == ItemsOf(pages)[
                      CHOOSE i \in 1..Len(ItemsOf(pages)) :
                          /\ ItemsOf(pages)[i].id = id
                          /\ \A j \in (i + 1)..Len(ItemsOf(pages)) :
                                ItemsOf(pages)[j].id # id]
    IN  [events |-> [i \in 1..Len(sorted) |->
                        SourceEvent("modelscope", raw(sorted[i]))],
         new_cursor |-> Cursor("known_model_ids", 0, known \cup found)]

PollResultOf(adapter, cursor, pages) ==
    IF adapter = "modelscope" THEN KnownResult(cursor, pages)
    ELSE WatermarkResult(adapter, cursor, pages)

\* the loop asks for another page
MorePages(adapter, resp) ==
    IF adapter = "modelscope" THEN resp.next /\ resp.items # <<>>
    ELSE resp.next

\* a failed page that ends the poll with what the pages before it gave
ReturnFetchedOnError(f, status) ==
    [f EXCEPT !.pc = "returned", !.failed = status,
              !.result = Some(PollResultOf(f.adapter, f.cursor, f.pages))]

\* an exception of http.get or of the validation leaves poll
RaiseOnError(f, status) == [f EXCEPT !.pc = "raised", !.failed = status]

\* poll(cursor) is called on an adapter; first is the poll before this
\* one, if this one was called with the cursor that one returned
PollBegin(p) ==
    /\ run[p].pc = "idle"
    /\ run[p].fetch = None
    /\ \E adapter \in Adapters, cursor \in PollCursors :
          run' = [run EXCEPT ![p] = [@ EXCEPT !.fetch =
                    Some([adapter |-> adapter, cursor |-> cursor, pages |-> <<>>,
                          pc |-> "get", failed |-> Null, result |-> None,
                          first |-> None, polls |-> 1])]]
    /\ UNCHANGED <<schema, cursors, seen_events, first_seen_at, alerts,
                   notify_failures, record_unmatched_as_seen, sent, raised,
                   saved, polled, cycles, crashes>>

\* poll is called again with the cursor the poll before returned, against
\* an upstream that has not changed: it answers each page request as it
\* did before
PollAgain(p) ==
    /\ run[p].fetch # None
    /\ LET f == run[p].fetch[1] IN
       /\ f.pc = "returned"
       /\ f.polls < MaxPolls
       /\ run' = [run EXCEPT ![p] = [@ EXCEPT !.fetch =
              Some([adapter |-> f.adapter, cursor |-> f.result[1].new_cursor,
                    pages |-> <<>>, pc |-> "get", failed |-> Null,
                    result |-> None,
                    first |-> Some([cursor |-> f.cursor, pages |-> f.pages,
                                    result |-> f.result[1]]),
                    polls |-> f.polls + 1])]]
    /\ UNCHANGED <<schema, cursors, seen_events, first_seen_at, alerts,
                   notify_failures, record_unmatched_as_seen, sent, raised,
                   saved, polled, cycles, crashes>>

\* runner.py 182-183 and 136-163: the cursor stored for the source key
\* after the turn of a poll: the new cursor of a poll that returned one,
\* else the cursor the poll was called with
StoredAfter(f) ==
    IF f.pc = "returned" /\ f.result[1].new_cursor.key # "none"
    THEN f.result[1].new_cursor
    ELSE f.cursor

\* the poll of the next cycle: it is called with the stored cursor, and
\* upstream answers as it likes
PollNext(p) ==
    /\ run[p].fetch # None
    /\ LET f == run[p].fetch[1] IN
       /\ f.pc \in {"returned", "raised"}
       /\ f.polls < MaxPolls
       /\ run' = [run EXCEPT ![p] = [@ EXCEPT !.fetch =
              Some([adapter |-> f.adapter, cursor |-> StoredAfter(f),
                    pages |-> <<>>, pc |-> "get", failed |-> Null,
                    result |-> None, first |-> None,
                    polls |-> f.polls + 1])]]
    /\ UNCHANGED <<schema, cursors, seen_events, first_seen_at, alerts,
                   notify_failures, record_unmatched_as_seen, sent, raised,
                   saved, polled, cycles, crashes>>

\* one turn of the page loop: http.get and the validation of the body
HttpGet(p) ==
    /\ run[p].fetch # None
    /\ LET f == run[p].fetch[1] IN
       /\ f.pc = "get"
       /\ Len(f.pages) < MaxPages
       /\ \E resp \in Responses :
             /\ Len(f.pages) + 1 = MaxPages => ~resp.next
             /\ f.first # None =>
                    /\ Len(f.pages) < Len(f.first[1].pages)
                    /\ resp = f.first[1].pages[Len(f.pages) + 1]
             /\ run' = [run EXCEPT ![p] = [@ EXCEPT !.fetch = Some(
                    IF resp.status # "ok" THEN RaiseOnError(f, resp.status)
                    ELSE [f EXCEPT !.pages = Append(@, resp),
                                   !.pc = IF MorePages(f.adapter, resp)
                                          THEN "get" ELSE "done"])]]
    /\ UNCHANGED <<schema, cursors, seen_events, first_seen_at, alerts,
                   notify_failures, record_unmatched_as_seen, sent, raised,
                   saved, polled, cycles, crashes>>

\* the item loop and the return of the PollResult
PollReturn(p) ==
    /\ run[p].fetch # None
    /\ LET f == run[p].fetch[1] IN
       /\ f.pc = "done"
       /\ run' = [run EXCEPT ![p] = [@ EXCEPT !.fetch = Some(
              [f EXCEPT !.pc = "returned",
                        !.result = Some(PollResultOf(f.adapter, f.cursor, f.pages))])]]
    /\ UNCHANGED <<schema, cursors, seen_events, first_seen_at, alerts,
                   notify_failures, record_unmatched_as_seen, sent, raised,
                   saved, polled, cycles, crashes>>

NextPoll ==
    \E p \in Runners :
        \/ PollBegin(p)
        \/ HttpGet(p)
        \/ PollReturn(p)
        \/ PollAgain(p)
        \/ PollNext(p)

SpecPoll == InitDefault /\ [][NextPoll]_vars

(***************************************************************************)
(* HttpClient.get (http_utils.py): the retry loop around urlopen.  An      *)
(* attempt ends with a response, an HTTPError with a status code, a        *)
(* URLError, a TimeoutError, or an exception the loop does not catch (read *)
(* fails with an OSError).                                                 *)
(***************************************************************************)
Outcome(kind, code) == [kind |-> kind, code |-> code]

HttpOutcomes ==
    {Outcome("response", 200)}
    \cup {Outcome("HTTPError", code) : code \in {429, 500, 502, 503, 504, 403, 404}}
    \cup {Outcome(kind, 0) : kind \in {"URLError", "TimeoutError", "OSError"}}

\* every status is retried
RetryAny(code) == TRUE

\* line 71: e.code in (429, 500, 502, 503, 504)
Retry(code) == code \in {429, 500, 502, 503, 504}

\* lines 59-77: where one attempt leaves the call
AfterAttempt(h, o) ==
    LET made == [h EXCEPT !.outcomes = Append(@, o)] IN
    CASE o.kind = "response" ->
            [made EXCEPT !.pc = "returned", !.result = Some(o)]
      [] o.kind = "HTTPError" ->
            IF ~Retry(o.code) \/ h.attempt >= h.max_retries
            THEN [made EXCEPT !.pc = "raised", !.result = Some(o)]
            ELSE [made EXCEPT !.pc = "backoff", !.last_error = Some(o)]
      [] o.kind \in {"URLError", "TimeoutError"} ->
            IF h.attempt >= h.max_retries
            THEN [made EXCEPT !.pc = "raised", !.result = Some(o)]
            ELSE [made EXCEPT !.pc = "backoff", !.last_error = Some(o)]
      [] OTHER -> [made EXCEPT !.pc = "raised", !.result = Some(o)]

\* get(url) is called on a client built with max_retries
HttpClientGet(p) ==
    /\ run[p].pc = "idle"
    /\ run[p].http = None
    /\ \E max_retries \in 0..MaxRetries :
          run' = [run EXCEPT ![p] = [@ EXCEPT !.http =
                    Some([max_retries |-> max_retries, attempt |-> 0,
                          outcomes |-> <<>>, last_error |-> None,
                          pc |-> "request", result |-> None])]]
    /\ UNCHANGED <<schema, cursors, seen_events, first_seen_at, alerts,
                   notify_failures, record_unmatched_as_seen, sent, raised,
                   saved, polled, cycles, crashes>>

\* lines 59-77: one attempt, urlopen and read
HttpAttempt(p) ==
    /\ run[p].http # None
    /\ run[p].http[1].pc = "request"
    /\ \E o \in HttpOutcomes :
          run' = [run EXCEPT ![p] = [@ EXCEPT !.http =
                    Some(AfterAttempt(run[p].http[1], o))]]
    /\ UNCHANGED <<schema, cursors, seen_events, first_seen_at, alerts,
                   notify_failures, record_unmatched_as_seen, sent, raised,
                   saved, polled, cycles, crashes>>

\* lines 79-84 and 58: the sleep, then the next turn of the for loop, or
\* raise last_error when range(max_retries + 1) is used up
HttpBackoff(p) ==
    /\ run[p].http # None
    /\ LET h == run[p].http[1] IN
       /\ h.pc = "backoff"
       /\ run' = [run EXCEPT ![p] = [@ EXCEPT !.http = Some(
              IF h.attempt + 1 < h.max_retries + 1
              THEN [h EXCEPT !.attempt = @ + 1, !.pc = "request"]
              ELSE [h EXCEPT !.pc = "raised", !.result = h.last_error])]]
    /\ UNCHANGED <<schema, cursors, seen_events, first_seen_at, alerts,
                   notify_failures, record_unmatched_as_seen, sent, raised,
                   saved, polled, cycles, crashes>>

NextHttp ==
    \E p \in Runners : HttpClientGet(p) \/ HttpAttempt(p) \/ HttpBackoff(p)

\* the calling thread keeps running: urlopen returns or raises within the
\* timeout, and the sleep ends
SpecHttp == InitDefault /\ [][NextHttp]_vars /\ WF_vars(NextHttp)

(***************************************************************************)
(* Cycles with process stops in which a poll may hand back one of two      *)
(* cursors, so that a stored cursor can be replaced by another; the        *)
(* sources return an event with a matching title or nothing.               *)
(***************************************************************************)
NewCursors == {"c1", "c2", Null}

NextCursor ==
    \E p \in Runners :
        \/ BeginCycle(p)
        \/ PollOkWith(p, OverlapBatches, NewCursors)
        \/ PollRaise(p)
        \/ CheckSeen(p)
        \/ MatchEvent(p)
        \/ Send(p)
        \/ RecordFailure(p)
        \/ MarkSeen(p)
        \/ SetCursor(p)
        \/ Finish(p)
        \/ Crash(p)

SpecCursor == InitDefault /\ [][NextCursor]_vars

(***************************************************************************)
(* Cycles in which the polls return what the GitHub issues adapter builds  *)
(* from upstream's listing of one issue that is updated over time: the     *)
(* issue at two update times, each with a title that matches or not.       *)
(***************************************************************************)
UpdateItems ==
    {[id |-> "1", at |-> 1, pr |-> FALSE], [id |-> "1", at |-> 2, pr |-> FALSE]}

\* github.py 109-130 and 174-200: the TrackerEvent of an item, with the
\* fields the runner reads
TrackerEventOf(adapter, item, title) ==
    LET e == SourceEvent(adapter, item) IN
    [source |-> e.source, resource_type |-> e.resource_type,
     resource_id |-> e.resource_id, event_type |-> e.event_type,
     event_id |-> e.event_id, title |-> title, summary |-> <<>>,
     occurred_at |-> e.occurred_at, observed_at |-> 1]

UpdateUniverse ==
    {TrackerEventOf("issues", item, title) :
        item \in UpdateItems, title \in {TitleHit, TitleMiss}}

UpdateBatches == UNION {[1..n -> UpdateUniverse] : n \in 0..MaxBatch}

NextUpdates == \E p \in Runners : StepFrom(p, UpdateBatches)

SpecUpdates == Init /\ [][NextUpdates]_vars

(***************************************************************************)
(* The page loop of ModelScopeOrgModelsSource.poll (modelscope.py 58-113)  *)
(* with the numbers of the code.  A page is the number of items of its     *)
(* data.models list and its total_count, None for a body without one;     *)
(* upstream may also answer with a body the adapter rejects, and http.get  *)
(* may raise.                                                              *)
(***************************************************************************)
page_size == 50

max_items == 3000

TotalCounts == {None, Some(0), Some(50), Some(75), Some(3000), Some(5000)}

ScanPages ==
    {[status |-> "ok", items |-> n, total_count |-> t] :
        n \in {0, 1, page_size}, t \in TotalCounts}
    \cup {[status |-> st, items |-> 0, total_count |-> None] :
             st \in {"malformed", "error"}}

\* a loop without the cap
WithinAny(page_number) == TRUE

\* line 65: while page_number * page_size <= max_items
WithinMaxItems(page_number) == page_number * page_size <= max_items

\* line 109: isinstance(total_count, int) and
\* total_count <= page_number * page_size
TotalCovered(page, page_number) ==
    page.total_count # None /\ page.total_count[1] <= page_number * page_size

\* poll is called: lines 59-63
ScanBegin(p) ==
    /\ run[p].pc = "idle"
    /\ run[p].scan = None
    /\ run' = [run EXCEPT ![p] = [@ EXCEPT !.scan =
                  Some([page_number |-> 1, requests |-> 0, pc |-> "loop",
                        last |-> None, reported |-> FALSE])]]
    /\ UNCHANGED <<schema, cursors, seen_events, first_seen_at, alerts,
                   notify_failures, record_unmatched_as_seen, sent, raised,
                   saved, polled, cycles, crashes>>

\* lines 65-113: one turn of the loop, the request of page page_number
ScanPage(p) ==
    /\ run[p].scan # None
    /\ LET s == run[p].scan[1] IN
       /\ s.pc = "loop"
       /\ WithinMaxItems(s.page_number)
       /\ \E page \in ScanPages :
             LET got == [s EXCEPT !.requests = @ + 1, !.last = Some(page),
                                  !.reported = @ \/ page.total_count # None]
             IN  run' = [run EXCEPT ![p] = [@ EXCEPT !.scan = Some(
                     CASE page.status # "ok" -> [got EXCEPT !.pc = "raised"]
                       [] page.status = "ok" /\ TotalCovered(page, s.page_number) ->
                            [got EXCEPT !.pc = "collected"]
                       [] page.status = "ok" /\ ~TotalCovered(page, s.page_number)
                          /\ page.items = 0 ->
                            [got EXCEPT !.pc = "collected"]
                       [] OTHER -> [got EXCEPT !.page_number = @ + 1])]]
    /\ UNCHANGED <<schema, cursors, seen_events, first_seen_at, alerts,
                   notify_failures, record_unmatched_as_seen, sent, raised,
                   saved, polled, cycles, crashes>>

\* line 65: the loop ends because its condition is false
ScanEnd(p) ==
    /\ run[p].scan # None
    /\ LET s == run[p].scan[1] IN
       /\ s.pc = "loop"
       /\ ~WithinMaxItems(s.page_number)
       /\ run' = [run EXCEPT ![p] = [@ EXCEPT !.scan =
                     Some([s EXCEPT !.pc = "collected"])]]
    /\ UNCHANGED <<schema, cursors, seen_events, first_seen_at, alerts,
                   notify_failures, record_unmatched_as_seen, sent, raised,
                   saved, polled, cycles, crashes>>

NextScan ==
    \E p \in Runners :
        \/ ScanBegin(p)
        \/ ScanPage(p)
        \/ ScanEnd(p)

SpecScan == InitDefault /\ [][NextScan]_vars /\ WF_vars(NextScan)

(***************************************************************************)
(* main in daemon mode (main.py): the loop around run_once.  A run_once    *)
(* that returned is followed by the sleep of the poll interval and the     *)
(* next call; a run_once that raised an Exception by the except branch.    *)
(* The sources return an event with a matching title or nothing.           *)
(***************************************************************************)
\* the exception is raised again after it was logged: main ends
ExitAfterCrash(l) == [l EXCEPT !.pc = "exited"]

\* line 150: continue, back to the head of "while True"
ContinueAfterCrash(l) == [l EXCEPT !.pc = "idle", !.failed_op = Null]

\* lines 144-146 and 152-207: the body of the loop while no exception is
\* pending: run_once is called and runs
DaemonRunOnce(p) ==
    /\ run[p].failed_op = Null
    /\ StepFrom(p, OverlapBatches)

\* a State Store operation of the running run_once raises
DaemonRunOnceRaise(p) ==
    /\ run[p].failed_op = Null
    /\ StoreRaise(p)

\* lines 147-149: except Exception: logger.exception("cycle crashed"),
\* then time.sleep(5)
CycleCrashed(p) ==
    /\ run[p].pc = "idle"
    /\ run[p].failed_op # Null
    /\ run' = [run EXCEPT ![p] = [@ EXCEPT !.pc = "logged"]]
    /\ UNCHANGED <<schema, cursors, seen_events, first_seen_at, alerts,
                   notify_failures, record_unmatched_as_seen, sent, raised,
                   saved, polled, cycles, crashes>>

\* the sleep is over
DaemonContinue(p) ==
    /\ run[p].pc = "logged"
    /\ run' = [run EXCEPT ![p] = ContinueAfterCrash(run[p])]
    /\ UNCHANGED <<schema, cursors, seen_events, first_seen_at, alerts,
                   notify_failures, record_unmatched_as_seen, sent, raised,
                   saved, polled, cycles, crashes>>

NextDaemon ==
    \E p \in Runners :
        \/ DaemonRunOnce(p)
        \/ DaemonRunOnceRaise(p)
        \/ CycleCrashed(p)
        \/ DaemonContinue(p)

\* the main thread keeps running: a step that can be taken is taken (the
\* sleeps end, the blocking calls return or raise)
SpecDaemon == InitDefault /\ [][NextDaemon]_vars /\ WF_vars(NextDaemon)

(***************************************************************************)
(* Properties.                                                             *)
(***************************************************************************)
HasAlertRow(fp) == \E a \in alerts : a.fingerprint = fp

\* the send calls and save_alert calls made for fp stay as they are
NoNewAlertOrSend(fp) ==
    /\ saved'[fp] = saved[fp]
    /\ \A ch \in Channels : sent'[<<fp, ch>>] = sent[<<fp, ch>>]

\* C1: with cycles run one after another to completion, every fingerprint
\* has an alert created at most once and every notifier's send invoked at
\* most once for it, whatever the adapters return; and from the moment a
\* fingerprint is in the seen-set no alert is created and no send is made
\* for it.
C1_AtMostOneAlert ==
    /\ [](\A fp \in Fingerprints :
            /\ saved[fp] <= 1
            /\ \A ch \in Channels : sent[<<fp, ch>>] <= 1)
    /\ [][\A fp \in Fingerprints : fp \in seen_events => NoNewAlertOrSend(fp)]_vars

\* a second cycle has skipped a seen event whose title matches, and its
\* fingerprint was alerted and sent once to every channel
C1_Witness ==
    \E p \in Runners :
        /\ cycles = 2
        /\ run[p].pc = "event"
        /\ run[p].eidx = 2
        /\ run[p].cnt.events_skipped_seen = 1
        /\ run[p].events[1].title = TitleHit
        /\ saved[fingerprint(run[p].events[1])] = 1
        /\ \A ch \in Channels : sent[<<fingerprint(run[p].events[1]), ch>>] = 1

PollRaised(i) == polled[Sources[i]] # None /\ polled[Sources[i]][1].raised

\* C3: in the report of a cycle every configured source has its entry,
\* in order; the entry of a source whose poll returned counts every event
\* fetched as processed and its non-null new cursor is the stored one,
\* whatever the polls of the other sources did; source_errors is the number
\* of sources whose poll raised.
C3_PartialFailureIsolation ==
    \A p \in Runners :
        run[p].report # None =>
            LET rep == run[p].report[1] IN
            /\ Len(rep.sources) = Len(Sources)
            /\ \A i \in 1..Len(Sources) :
                 LET key == Sources[i]
                     e == rep.sources[i]
                 IN  /\ e.source_key = key
                     /\ polled[key] # None
                     /\ PollRaised(i) <=> e.error # Null
                     /\ ~PollRaised(i) =>
                          /\ e.events_fetched = polled[key][1].fetched
                          /\ e.events_processed = polled[key][1].fetched
                          /\ polled[key][1].new_cursor # Null =>
                               /\ cursors[key] = polled[key][1].new_cursor
                               /\ e.cursor_after = polled[key][1].new_cursor
            /\ rep.source_errors =
                 Cardinality({i \in 1..Len(Sources) : PollRaised(i)})

\* a report: the first source raised, the second returned two events and
\* a cursor, one alert was created and the cursor is stored
C3_Witness ==
    \E p \in Runners :
        /\ run[p].report # None
        /\ run[p].report[1].source_errors = 1
        /\ run[p].report[1].sources[1].error # Null
        /\ run[p].report[1].sources[2].error = Null
        /\ run[p].report[1].sources[2].events_processed = 2
        /\ run[p].report[1].sources[2].alerts_created = 1
        /\ cursors[Sources[2]] = "c1"

\* the rows of (fp, ch) in a notify-failure log
FailureRows(log, fp, ch) ==
    {i \in 1..Len(log) : log[i].fingerprint = fp /\ log[i].channel = ch}

\* C4: when the processing of a matched event ends, every notifier's send
\* has been invoked exactly once for it, whichever of them raised; every
\* send that raised has exactly one NotifyFailure row (fingerprint,
\* channel, error) and a send that did not raise has none; and the
\* fingerprint is in the seen-set.
C4_NotifyFailureIsolation ==
    [][\A p \in Runners :
         (run[p].pc = "send" /\ run'[p].pc = "event") =>
            LET fp == run[p].alert[1].fingerprint IN
            /\ fp \in seen_events'
            /\ \A ch \in Channels :
                 /\ sent'[<<fp, ch>>] = 1
                 /\ Cardinality(FailureRows(notify_failures', fp, ch)) =
                        raised'[<<fp, ch>>]
            /\ \A i \in 1..Len(notify_failures') :
                 notify_failures'[i].error = ErrorText]_vars

\* the first notifier raised, the second was still invoked and did not:
\* one row, for the first channel, and the fingerprint is seen
C4_Witness ==
    \E fp \in Fingerprints :
        /\ notify_failures =
             <<[fingerprint |-> fp, channel |-> Notifiers[1], error |-> ErrorText]>>
        /\ raised[<<fp, Notifiers[1]>>] = 1
        /\ sent[<<fp, Notifiers[2]>>] = 1
        /\ raised[<<fp, Notifiers[2]>>] = 0
        /\ fp \in seen_events

\* the step is a poll of the source at run[p].sidx
PollStep(p) ==
    /\ run[p].pc = "source"
    /\ run[p].sidx <= Len(Sources)
    /\ run'[p] # run[p]
    /\ run'[p].pc \in {"source", "event"}

\* C5: a poll of a source key that was polled before is invoked with the
\* non-null new_cursor the previous poll returned, and with the cursor the
\* previous poll was invoked with if that poll returned a null new_cursor
\* or raised.
C5_CursorPersistence ==
    [][\A p \in Runners :
         PollStep(p) =>
            LET key == Sources[run[p].sidx] IN
            polled[key] # None =>
                polled'[key][1].cursor =
                    IF ~polled[key][1].raised /\ polled[key][1].new_cursor # Null
                    THEN polled[key][1].new_cursor
                    ELSE polled[key][1].cursor]_vars

\* the second cycle polled the first source with the cursor "c1" that its
\* first poll had returned, and the poll raised
C5_Witness ==
    /\ cycles = 2
    /\ polled[Sources[1]] # None
    /\ polled[Sources[1]][1].cursor = "c1"
    /\ polled[Sources[1]][1].raised

\* C6: in every state, process stops included, a fingerprint for which a
\* send has been invoked has an alert row.
C6_AlertSavedBeforeSend ==
    \A fp \in Fingerprints :
        (\E ch \in Channels : sent[<<fp, ch>>] > 0) => HasAlertRow(fp)

\* the process stopped after the first send: the alert row is there, the
\* fingerprint is not seen
C6_Witness ==
    /\ crashes = 1
    /\ \A p \in Runners : run[p].pc = "idle"
    /\ \E fp \in Fingerprints :
         /\ sent[<<fp, Notifiers[1]>>] = 1
         /\ sent[<<fp, Notifiers[2]>>] = 0
         /\ fp \notin seen_events
         /\ HasAlertRow(fp)

\* C7: while a matched event is processed its fingerprint enters the
\* seen-set only after all notifiers have been attempted, and when its
\* processing ends the fingerprint is in the seen-set, whatever the
\* deliveries did.
C7_MarkSeenAfterDelivery ==
    [][\A p \in Runners :
         run[p].alert # None =>
            LET fp == run[p].alert[1].fingerprint IN
            /\ (fp \notin seen_events /\ fp \in seen_events') =>
                   /\ run[p].nidx > Len(Notifiers)
                   /\ run[p].n.notify_attempts = Len(Notifiers)
            /\ run'[p].alert = None => fp \in seen_events']_vars

\* every delivery of an alert failed and its fingerprint is seen
C7_Witness ==
    \E fp \in Fingerprints :
        /\ fp \in seen_events
        /\ \A ch \in Channels : raised[<<fp, ch>>] = 1
        /\ \A p \in Runners : run[p].pc = "event"

\* C8: the step that takes up an event whose fingerprint is in the
\* seen-set ends its processing: the matcher is not reached, no alert is
\* saved, no send is made, the tables are unchanged, and the event is
\* counted as processed and as skipped-seen, and as nothing else.
C8_SeenShortCircuit ==
    [][\A p \in Runners :
         (/\ run[p].pc = "event"
          /\ run[p].eidx <= Len(run[p].events)
          /\ fingerprint(run[p].events[run[p].eidx]) \in seen_events
          /\ run'[p] # run[p]) =>
            /\ run'[p].pc = "event"
            /\ run'[p].eidx = run[p].eidx + 1
            /\ UNCHANGED <<store, sent, raised, saved>>
            /\ run'[p].cnt = [run[p].cnt EXCEPT !.events_processed = @ + 1,
                                                !.events_skipped_seen = @ + 1]]_vars

\* an event with a matching title was skipped: its fingerprint was seen
\* from an unmatched event, and there is no alert
C8_Witness ==
    \E p \in Runners :
        /\ run[p].pc = "event"
        /\ run[p].eidx = 2
        /\ run[p].events[1].title = TitleHit
        /\ run[p].cnt.events_skipped_seen = 1
        /\ run[p].cnt.events_processed = 1
        /\ alerts = {}

\* the runner is in the notifier loop of an alert of fp
Delivering(fp) ==
    \E p \in Runners : run[p].alert # None /\ run[p].alert[1].fingerprint = fp

\* C9: an unseen event goes to the matcher; a matched one gets its alert
\* row and enters the notifier loop at the first notifier; and outside the
\* notifier loop of its alert, so at the end of the cycle, every
\* fingerprint with an alert row has had the send of every configured
\* notifier invoked exactly once.
C9_FanOut ==
    /\ [][\A p \in Runners :
            /\ (/\ run[p].pc = "event"
                /\ run[p].eidx <= Len(run[p].events)
                /\ fingerprint(run[p].events[run[p].eidx]) \notin seen_events
                /\ run'[p] # run[p]) => run'[p].pc = "match"
            /\ (/\ run[p].pc = "match"
                /\ match(run[p].events[run[p].eidx]) # <<>>
                /\ run'[p] # run[p]) =>
                   /\ \E a \in alerts' :
                        a.fingerprint = fingerprint(run[p].events[run[p].eidx])
                   /\ run'[p].pc = "send"
                   /\ run'[p].nidx = 1]_vars
    /\ [](\A fp \in Fingerprints :
            (HasAlertRow(fp) /\ ~Delivering(fp)) =>
                \A ch \in Channels : sent[<<fp, ch>>] = 1)

\* a cycle has ended; the first notifier raised for an alert and the
\* second was invoked for it all the same
C9_Witness ==
    \E p \in Runners : \E fp \in Fingerprints :
        /\ run[p].report # None
        /\ run[p].report[1].notify_attempts = Len(Notifiers)
        /\ HasAlertRow(fp)
        /\ raised[<<fp, Notifiers[1]>>] = 1
        /\ sent[<<fp, Notifiers[2]>>] = 1

\* C10: the turn of a source whose poll raises leaves the five tables as
\* they were and adds one report entry, with cursor_after equal to
\* cursor_before, the stored cursor, an error and all counters zero.
C10_PollErrorFrame ==
    [][\A p \in Runners :
         LET key == Sources[run[p].sidx] IN
         (PollStep(p) /\ polled'[key][1].raised) =>
            /\ UNCHANGED store
            /\ Len(run'[p].source_reports) = Len(run[p].source_reports) + 1
            /\ LET e == run'[p].source_reports[Len(run'[p].source_reports)] IN
               /\ e = SourceRunReport(key, cursors[key], cursors[key],
                                      ZeroCounters, e.error)
               /\ e.error # Null]_vars

\* a source with a stored cursor and seen events failed in a later cycle:
\* its entry has the stored cursor on both sides
C10_Witness ==
    \E p \in Runners :
        /\ run[p].pc = "source"
        /\ Len(run[p].source_reports) = 1
        /\ run[p].source_reports[1].error # Null
        /\ run[p].source_reports[1].cursor_before = "c1"
        /\ run[p].source_reports[1].cursor_after = "c1"
        /\ cursors[Sources[1]] = "c1"
        /\ seen_events # {}

\* C11: with no failures other than polls and sends that raise, a cycle
\* that has started ends by returning a report, and the report a cycle
\* ends with has one entry for every configured source, in the configured
\* order.
C11_ReportAlwaysReturned ==
    /\ \A p \in Runners :
          (run[p].pc # "idle") ~> (run[p].pc = "idle" /\ run[p].report # None)
    /\ [][\A p \in Runners :
            (run[p].pc # "idle" /\ run'[p].pc = "idle") =>
               /\ run'[p].report # None
               /\ Len(run'[p].report[1].sources) = Len(Sources)
               /\ \A i \in 1..Len(Sources) :
                    run'[p].report[1].sources[i].source_key = Sources[i]]_vars

\* the report of a second cycle in which the poll of every source raised,
\* after a first cycle in which a send raised
C11_Witness ==
    \E p \in Runners :
        /\ cycles = 2
        /\ run[p].report # None
        /\ run[p].report[1].source_errors = Len(Sources)
        /\ \A i \in 1..Len(Sources) : run[p].report[1].sources[i].error # Null
        /\ notify_failures # <<>>

\* C12: a run_once in which a State Store operation raised has ended at
\* that operation and returned no report; the step in which the operation
\* raises changes no table, polls no source and sends nothing; and until
\* the next run_once starts, nothing is polled, processed or written.
C12_StoreErrorEndsCycle ==
    /\ [](\A p \in Runners :
            run[p].failed_op # Null => run[p].pc = "idle" /\ run[p].report = None)
    /\ [][\A p \in Runners :
            (run'[p].failed_op # Null /\ run'[p] # run[p]) =>
                UNCHANGED <<store, sent, raised, saved, polled>>]_vars
    /\ [][\A p \in Runners :
            (run[p].failed_op # Null /\ cycles' = cycles) =>
                UNCHANGED <<store, sent, raised, saved, polled, run>>]_vars

\* record_notify_failure raised after a send that raised, with the second
\* source not yet polled: the alert row is there, there is no failure row,
\* the fingerprint is not seen, no report
C12_Witness ==
    \E p \in Runners : \E fp \in Fingerprints :
        /\ run[p].failed_op = "record_notify_failure"
        /\ run[p].report = None
        /\ raised[<<fp, Notifiers[1]>>] = 1
        /\ sent[<<fp, Notifiers[2]>>] = 0
        /\ notify_failures = <<>>
        /\ fp \notin seen_events
        /\ polled[Sources[2]] = None

\* C13: with record_unmatched_as_seen true, the step that processes an
\* event with zero rule matches puts its fingerprint in the seen-set; and
\* a fingerprint that is in the seen-set without an alert ever saved for
\* it stays so: no later step saves an alert or makes a send for it,
\* whatever the titles of the events that carry it later.
C13_UnmatchedStaysSilent ==
    /\ [][record_unmatched_as_seen =>
            \A p \in Runners :
                (/\ run[p].pc = "match"
                 /\ match(run[p].events[run[p].eidx]) = <<>>
                 /\ run'[p] # run[p]) =>
                    fingerprint(run[p].events[run[p].eidx]) \in seen_events']_vars
    /\ [][record_unmatched_as_seen =>
            \A fp \in Fingerprints :
                (fp \in seen_events /\ saved[fp] = 0) =>
                    /\ fp \in seen_events'
                    /\ saved'[fp] = 0
                    /\ \A ch \in Channels : sent'[<<fp, ch>>] = 0
                    /\ \A a \in alerts' : a.fingerprint # fp]_vars

\* in the second cycle an event with a matching title was skipped: its
\* fingerprint is seen from an unmatched event of the first cycle, and no
\* alert was ever saved for it
C13_Witness ==
    \E p \in Runners :
        /\ record_unmatched_as_seen
        /\ cycles = 2
        /\ run[p].pc = "event"
        /\ run[p].eidx = 2
        /\ run[p].events[1].title = TitleHit
        /\ run[p].cnt.events_skipped_seen = 1
        /\ fingerprint(run[p].events[1]) \in run[p].prev
        /\ saved[fingerprint(run[p].events[1])] = 0

\* C14: with record_unmatched_as_seen true, when a cycle has returned its
\* report, every fingerprint a poll of that cycle returned is in the
\* seen-set; and a cycle whose polls returned only fingerprints that the
\* polls of the cycle before had returned counts every event it fetched as
\* skipped-seen.
C14_ReturnedEventsSeen ==
    record_unmatched_as_seen =>
        \A p \in Runners :
            run[p].report # None =>
                /\ run[p].returned \subseteq seen_events
                /\ run[p].returned \subseteq run[p].prev =>
                       run[p].report[1].events_skipped_seen =
                           run[p].report[1].events_fetched

\* the report of a rerun: the cycle before returned an unmatched event and
\* a matched one whose first delivery failed, this cycle returned the
\* same two fingerprints and skipped both
C14_Witness ==
    \E p \in Runners : \E fp1, fp2 \in Fingerprints :
        /\ record_unmatched_as_seen
        /\ run[p].report # None
        /\ cycles = 2
        /\ fp1 # fp2
        /\ run[p].prev = {fp1, fp2}
        /\ run[p].returned = {fp1, fp2}
        /\ saved[fp1] = 0
        /\ raised[<<fp2, Notifiers[1]>>] = 1
        /\ run[p].report[1].events_fetched = 2
        /\ run[p].report[1].events_skipped_seen = 2

\* the alert rows of a fingerprint in a table
AlertRows(table, fp) == {a \in table : a.fingerprint = fp}

\* C15: in every state, process stops included, the alerts table holds at
\* most one row per fingerprint; a matched event whose fingerprint has an
\* alert row but is not seen (the process stopped between save_alert and
\* mark_seen) is saved again, the new row taking the place of the old one,
\* and goes on to the notifiers; and when its processing ends its
\* fingerprint is in the seen-set.
C15_RestartAfterSaveAlert ==
    /\ [](\A fp \in Fingerprints : Cardinality(AlertRows(alerts, fp)) <= 1)
    /\ [][\A p \in Runners :
            (/\ run[p].pc = "match"
             /\ run'[p].pc # "idle"
             /\ run'[p] # run[p]
             /\ match(run[p].events[run[p].eidx]) # <<>>
             /\ AlertRows(alerts, fingerprint(run[p].events[run[p].eidx])) # {}) =>
                /\ run'[p].pc = "send"
                /\ AlertRows(alerts', fingerprint(run[p].events[run[p].eidx]))
                       = {run'[p].alert[1]}
                /\ run'[p].alert[1].created_at = cycles]_vars
    /\ [][\A p \in Runners :
            (run[p].pc = "send" /\ run'[p].pc = "event") =>
                run[p].alert[1].fingerprint \in seen_events']_vars

\* the process stopped after save_alert in the first cycle; the second
\* cycle got the event again, saved its alert again and marked it seen:
\* one row, the one of the second cycle
C15_Witness ==
    \E fp \in Fingerprints :
        /\ crashes = 1
        /\ cycles = 2
        /\ saved[fp] = 2
        /\ fp \in seen_events
        /\ Cardinality(AlertRows(alerts, fp)) = 1
        /\ \A a \in AlertRows(alerts, fp) : a.created_at = 2

\* C16 as claimed: when both of two overlapping cycles have fetched a
\* fingerprint, it has been sent to every channel at most once in total.
C16_AtMostOnceOverlapping ==
    \A fp \in Fingerprints :
        (\A p \in Workers : fp \in run[p].returned) =>
            \A ch \in Channels : sent[<<fp, ch>>] <= 1

\* C16, amended: with two executions of run_once interleaved on one State
\* Store, a fingerprint is sent to a channel at most once by each of them,
\* so at most twice in total; the alerts table holds at most one row for
\* it; and an execution that takes up an event whose fingerprint is in the
\* seen-set by then skips it.
C16_AtMostOncePerExecution ==
    /\ [](\A fp \in Fingerprints :
            /\ \A ch \in Channels : sent[<<fp, ch>>] <= Cardinality(Workers)
            /\ Cardinality(AlertRows(alerts, fp)) <= 1)
    /\ [][\A p \in Workers :
            (/\ run[p].pc = "event"
             /\ run[p].eidx <= Len(run[p].events)
             /\ fingerprint(run[p].events[run[p].eidx]) \in seen_events
             /\ run'[p] # run[p]) =>
                /\ run'[p].pc = "event"
                /\ run'[p].eidx = run[p].eidx + 1
                /\ UNCHANGED <<store, sent, saved>>]_vars

\* both executions have returned a report with one alert created: the
\* fingerprint was sent twice to every channel, it has one alert row and
\* is seen
C16_Witness ==
    \E fp \in Fingerprints :
        /\ \A p \in Workers :
              /\ run[p].report # None
              /\ run[p].report[1].alerts_created = 1
        /\ \A ch \in Channels : sent[<<fp, ch>>] = 2
        /\ Cardinality(AlertRows(alerts, fp)) = 1
        /\ fp \in seen_events

\* C17: the events of a batch are taken up in list order and the list is
\* ascending in (occurred_at or observed_at, fingerprint); the alerts
\* saved in the turn are ascending in that key too, and every send is for
\* the alert saved last, so the sends of a batch follow that order.
C17_ProcessedInKeyOrder ==
    \A p \in Runners :
        LET l == run[p] IN
        /\ \A i, j \in 1..Len(l.events) :
              i < j => SortKeyLeq(l.events[i], l.events[j])
        /\ \A i, j \in 1..Len(l.ops) :
              (i < j /\ l.ops[i].op = "save_alert" /\ l.ops[j].op = "save_alert") =>
                  SortKeyLeq(l.ops[i].alert.event, l.ops[j].alert.event)
        /\ \A k \in 1..Len(l.ops) :
              l.ops[k].op = "send" =>
                  \E i \in 1..(k - 1) :
                      /\ l.ops[i].op = "save_alert"
                      /\ l.ops[i].alert.fingerprint = l.ops[k].fingerprint
                      /\ \A m \in (i + 1)..(k - 1) : l.ops[m].op = "send"
        /\ l.pc \in {"match", "send", "record_failure"} =>
              l.eidx \in 1..Len(l.events)
        /\ l.alert # None => l.alert[1].event = l.events[l.eidx]

\* a batch of two events with the same time was processed: the one with
\* the lower fingerprint first (unmatched), then the other, whose alert
\* was saved and sent to both channels
C17_Witness ==
    \E p \in Runners :
        /\ run[p].pc = "event"
        /\ run[p].eidx = 3
        /\ run[p].events = <<Event("1", TitleMiss, Some(2), 1),
                             Event("2", TitleHit, Some(2), 1)>>
        /\ Len(run[p].ops) = 3
        /\ run[p].ops[1].op = "save_alert"
        /\ run[p].ops[1].alert.event = run[p].events[2]

\* the orders a list can come in
Orders(s) ==
    {t \in [1..Len(s) -> Range(s)] :
        \A e \in Range(s) :
            Cardinality({i \in 1..Len(s) : t[i] = e}) =
                Cardinality({i \in 1..Len(s) : s[i] = e})}

\* the batch of the turn has been processed
TurnDone(l) == l.pc = "event" /\ l.eidx > Len(l.events)

\* what the turn called and left is what any order b of its batch gives
SameOutcome(l, b) ==
    LET r == Replay(SortEvents(b), l.seen0) IN
    /\ r.ops = l.ops
    /\ r.seen = seen_events
    /\ \A k \in 1..Len(r.ops) :
          r.ops[k].op = "save_alert" => r.ops[k].alert \in alerts

\* C18 as claimed: when a turn has processed its batch, the save_alert
\* and send calls it made, the seen-set and the alert rows are those that
\* every order of the same batch gives from the same seen-set.
C18_OrderIndependent ==
    \A p \in Runners :
        TurnDone(run[p]) =>
            \A b \in Orders(run[p].events) : SameOutcome(run[p], b)

\* no two different events of the list have the same time and fingerprint
NoFullTie(s) ==
    \A i, j \in 1..Len(s) :
        (SortTime(s[i]) = SortTime(s[j]) /\ fingerprint(s[i]) = fingerprint(s[j]))
            => s[i] = s[j]

\* C18, amended: the same for a batch in which no two different events
\* have both the same time and the same fingerprint.
C18_OrderIndependentNoFullTie ==
    \A p \in Runners :
        (TurnDone(run[p]) /\ NoFullTie(run[p].events)) =>
            \A b \in Orders(run[p].events) : SameOutcome(run[p], b)

\* a batch of two matching events with the same time and different
\* fingerprints was processed: two alerts, the lower fingerprint first
C18_Witness ==
    \E p \in Runners :
        /\ TurnDone(run[p])
        /\ run[p].events = <<Event("1", TitleHit, None, 1),
                             Event("2", TitleHit, Some(1), 1)>>
        /\ Len(run[p].ops) = 2 + 2 * Len(Notifiers)
        /\ run[p].ops[1].alert.event = run[p].events[1]

\* the identity tuple of an event
Identity(e) ==
    <<e.source, e.resource_type, e.resource_id, e.event_type, e.event_id>>

\* events of two identities in every combination of title, summary,
\* upstream time and observation time
FingerprintInputs ==
    {[Event(id, title, occurred, observed) EXCEPT !.summary = summary] :
        id \in {"1", "2"}, title \in {TitleHit, TitleMiss},
        summary \in {<<>>, <<"s">>}, occurred \in {None, Some(2)},
        observed \in {1, 2}}

\* equal identity tuples give equal fingerprints over the inputs
IdentityDecidesFingerprint ==
    \A a, b \in FingerprintInputs :
        Identity(a) = Identity(b) => fingerprint(a) = fingerprint(b)

\* C19: any two events with equal identity tuples (source, resource_type,
\* resource_id, event_type, event_id) have equal fingerprints, whatever
\* their title, summary, occurred_at and observed_at; this holds of the
\* events a runner has in hand as of every other event.
C19_FingerprintOfIdentityOnly ==
    /\ IdentityDecidesFingerprint
    /\ \A p \in Runners :
          \A i \in 1..Len(run[p].events) :
              \A b \in FingerprintInputs :
                  Identity(run[p].events[i]) = Identity(b) =>
                      fingerprint(run[p].events[i]) = fingerprint(b)

\* a batch held two events of one identity with different titles and
\* times; the first was alerted and the second skipped as seen
C19_Witness ==
    \E p \in Runners :
        /\ run[p].pc = "event"
        /\ run[p].eidx = 3
        /\ run[p].events = <<Event("1", TitleHit, None, 1),
                             Event("1", TitleMiss, Some(2), 1)>>
        /\ Identity(run[p].events[1]) = Identity(run[p].events[2])
        /\ fingerprint(run[p].events[1]) = fingerprint(run[p].events[2])
        /\ run[p].cnt.events_skipped_seen = 1
        /\ run[p].cnt.alerts_created = 1

\* a send on (fp, ch) has raised and its row is not yet written
FailurePending(fp, ch) ==
    \E p \in Runners :
        /\ run[p].pc = "record_failure"
        /\ run[p].alert[1].fingerprint = fp
        /\ Notifiers[run[p].nidx] = ch

\* C20: the NotifyFailure rows are one-to-one with the send calls that
\* raised: every row is of a (fingerprint, channel) on which a send
\* raised, and each such pair has as many rows as sends that raised on it
\* (less the one whose row is being written); a step only appends to the
\* log, every row there stays as it is at its place; and once a send on
\* (fingerprint, channel) has raised, send is never called on it again.
C20_FailureLogAppendOnly ==
    /\ [](/\ \A i \in 1..Len(notify_failures) :
               /\ notify_failures[i].fingerprint \in Fingerprints
               /\ notify_failures[i].channel \in Range(Notifiers)
               /\ notify_failures[i].error = ErrorText
           /\ \A fp \in Fingerprints : \A ch \in Range(Notifiers) :
                 Cardinality(FailureRows(notify_failures, fp, ch)) =
                     raised[<<fp, ch>>] - (IF FailurePending(fp, ch) THEN 1 ELSE 0))
    /\ [][/\ Len(notify_failures') >= Len(notify_failures)
          /\ SubSeq(notify_failures', 1, Len(notify_failures)) = notify_failures
          /\ \A fp \in Fingerprints : \A ch \in Range(Notifiers) :
                raised[<<fp, ch>>] > 0 =>
                    sent'[<<fp, ch>>] = sent[<<fp, ch>>]]_vars

\* both sends of one alert raised in the first cycle and left two rows;
\* the second cycle was handed the event again and skipped it
C20_Witness ==
    \E p \in Runners :
        /\ record_unmatched_as_seen
        /\ cycles = 2
        /\ run[p].pc = "event"
        /\ run[p].eidx = 2
        /\ run[p].events = <<Event("1", TitleHit, None, 1)>>
        /\ fingerprint(run[p].events[1]) \in run[p].prev
        /\ run[p].cnt.events_skipped_seen = 1
        /\ Len(notify_failures) = 2
        /\ \A i \in 1..2 :
              /\ notify_failures[i].fingerprint = fingerprint(run[p].events[1])
              /\ notify_failures[i].channel = Notifiers[i]
        /\ \A ch \in Range(Notifiers) :
              /\ raised[<<fingerprint(run[p].events[1]), ch>>] = 1
              /\ sent[<<fingerprint(run[p].events[1]), ch>>] = 1

\* the client's calls so far
Calls == run[CHOOSE p \in Runners : TRUE].calls

\* the number of the first mark_seen(fp) among the calls, 0 if none
FirstMark(calls, fp) ==
    IF \E j \in 1..Len(calls) : calls[j].op = "mark_seen" /\ calls[j].key = fp
    THEN CHOOSE j \in 1..Len(calls) :
            /\ calls[j].op = "mark_seen" /\ calls[j].key = fp
            /\ \A h \in 1..(j - 1) :
                  ~(calls[h].op = "mark_seen" /\ calls[h].key = fp)
    ELSE 0

\* C21: after ensure_schema, has_seen(fp) returns true exactly when a
\* mark_seen(fp) has completed before it and false, without an error, when
\* none has; no operation removes a seen entry or changes its
\* first_seen_at, so that a repeated mark_seen(fp) changes nothing and
\* first_seen_at stays the time of the first mark_seen(fp).
C21_SeenSetPermanent ==
    /\ [](\A i \in 1..Len(Calls) :
             Calls[i].op = "has_seen" =>
                 (Calls[i].found <=>
                     (FirstMark(Calls, Calls[i].key) \in 1..(i - 1))))
    /\ [](\A fp \in Fingerprints :
             /\ fp \in seen_events <=> FirstMark(Calls, fp) > 0
             /\ first_seen_at[fp] =
                    IF FirstMark(Calls, fp) > 0 THEN Some(FirstMark(Calls, fp))
                    ELSE None)
    /\ [][/\ seen_events \subseteq seen_events'
          /\ \A fp \in seen_events : first_seen_at'[fp] = first_seen_at[fp]
          /\ \A fp \in seen_events :
                (Len(Calls') > Len(Calls) /\ Calls'[Len(Calls')].op = "mark_seen"
                    /\ Calls'[Len(Calls')].key = fp)
                => UNCHANGED store]_vars

\* has_seen(fp) was false, mark_seen(fp) was called twice and has_seen(fp)
\* is true; first_seen_at is the time of the first of the two
C21_Witness ==
    /\ Len(Calls) = 5
    /\ Calls[2] = Call("has_seen", "6442c601", Null, FALSE)
    /\ Calls[3] = Call("mark_seen", "6442c601", Null, FALSE)
    /\ Calls[4] = Call("mark_seen", "6442c601", Null, FALSE)
    /\ Calls[5] = Call("has_seen", "6442c601", Null, TRUE)
    /\ first_seen_at["6442c601"] = Some(3)
    /\ seen_events = {"6442c601"}

\* the cursor of the last set_cursor(key, .) among the first n calls, None
\* (here Null) if there is none
RECURSIVE LastSet(_, _, _)
LastSet(calls, n, key) ==
    IF n = 0 THEN Null
    ELSE IF calls[n].op = "set_cursor" /\ calls[n].key = key
         THEN calls[n].cursor
         ELSE LastSet(calls, n - 1, key)

\* C22: after ensure_schema, get_cursor(k) returns None, without an
\* error, if set_cursor(k, .) was never called and otherwise the cursor of
\* the most recent set_cursor(k, c); the table holds just that for every
\* key; and set_cursor(k, c) changes neither the cursor of another key nor
\* the seen-set, the alerts or the notify-failure log.
C22_CursorStoreIsMap ==
    /\ [](\A i \in 1..Len(Calls) :
             Calls[i].op = "get_cursor" =>
                 Calls[i].cursor = LastSet(Calls, i - 1, Calls[i].key))
    /\ [](\A k \in SourceKeys : cursors[k] = LastSet(Calls, Len(Calls), k))
    /\ [][(Len(Calls') > Len(Calls) /\ Calls'[Len(Calls')].op = "set_cursor") =>
             /\ \A k \in SourceKeys \ {Calls'[Len(Calls')].key} :
                   cursors'[k] = cursors[k]
             /\ UNCHANGED <<schema, seen_events, first_seen_at, alerts,
                            notify_failures>>]_vars

\* get_cursor(s1) was None, set_cursor(s1, .) was called twice and
\* get_cursor(s1) is the second cursor; the other key has no cursor
C22_Witness ==
    /\ Len(Calls) = 5
    /\ Calls[2] = Call("get_cursor", "s1", Null, FALSE)
    /\ Calls[3] = Call("set_cursor", "s1", "c1", FALSE)
    /\ Calls[4] = Call("set_cursor", "s1", "c2", FALSE)
    /\ Calls[5] = Call("get_cursor", "s1", "c2", FALSE)
    /\ cursors["s2"] = Null

\* the normalized keywords of the runner's matcher that occur in the text
\* of the event, in configuration order
RECURSIVE HitsOf(_, _)
HitsOf(e, kws) ==
    IF kws = <<>> THEN <<>>
    ELSE LET k == Lower(Strip(Head(kws))) IN
         (IF k # <<>> /\ IsSubstring(k, Lower(e.title \o <<"\n">> \o e.summary))
          THEN <<k>> ELSE <<>>) \o HitsOf(e, Tail(kws))

\* C23: every row of the alerts table has the fingerprint of its event,
\* the channel names of all configured notifiers in order, whichever
\* deliveries failed, and one matched rule for every configured keyword
\* that occurs in the event, not only the first.
C23_PersistedAlertShape ==
    \A a \in alerts :
        /\ a.event \in EventUniverse
        /\ a.fingerprint = fingerprint(a.event)
        /\ a.channels = Notifiers
        /\ Len(a.matched_rules) = Len(HitsOf(a.event, Keywords))
        /\ Len(a.matched_rules) >= 1
        /\ \A i \in 1..Len(a.matched_rules) :
              a.matched_rules[i].rule_id =
                  <<"keyword:">> \o HitsOf(a.event, Keywords)[i]

\* an alert with two matched rules and both channels is in the table and
\* the delivery on its first channel has failed
C23_Witness ==
    \E a \in alerts :
        /\ Len(a.matched_rules) = 2
        /\ a.matched_rules[1].rule_id # a.matched_rules[2].rule_id
        /\ a.channels = Notifiers
        /\ raised[<<a.fingerprint, Notifiers[1]>>] = 1
        /\ FailureRows(notify_failures, a.fingerprint, Notifiers[1]) # {}
        /\ a.fingerprint \in seen_events

\* the matcher calls made
MatcherCalls == {run[p].matched[1] : p \in {q \in Runners : run[q].matched # None}}

\* the allow-list of the call lets the event through
Allowed(m) ==
    \/ m.source_allowlist = None
    \/ m.source_allowlist[1] = <<>>
    \/ m.event.source \in Range(m.source_allowlist[1])

\* the rule ids of a result
RuleIds(matches) == {matches[i].rule_id : i \in 1..Len(matches)}

\* the result has a RuleMatch for a keyword exactly when the keyword,
\* trimmed and lowercased, is not empty and occurs in text
AgreesOn(m, text) ==
    /\ \A i \in 1..Len(m.keywords) :
          LET k == Lower(Strip(m.keywords[i])) IN
          (<<"keyword:">> \o k) \in RuleIds(m.matches)
              <=> (k # <<>> /\ IsSubstring(k, text))
    /\ \A r \in RuleIds(m.matches) :
          \E i \in 1..Len(m.keywords) :
              r = <<"keyword:">> \o Lower(Strip(m.keywords[i]))

\* C24 as claimed: for an event the allow-list lets through, match agrees
\* with the reference matcher over the lowercased title and summary joined
\* directly.
C24_AgreesWithDirectJoin ==
    \A m \in MatcherCalls :
        Allowed(m) => AgreesOn(m, Lower(m.event.title \o m.event.summary))

\* C24, amended: the same over the lowercased title and summary joined by
\* one line break.
C24_AgreesWithLineJoin ==
    \A m \in MatcherCalls :
        Allowed(m) =>
            AgreesOn(m, Lower(m.event.title \o <<"\n">> \o m.event.summary))

\* title "D" and summary "Sx": the keyword " ds" does not match across the
\* line break, the keyword "d", line break, "s" does
C24_Witness ==
    \E m \in MatcherCalls :
        /\ m.keywords = << <<" ", "d", "s">>, <<"d", "\n", "s">> >>
        /\ m.event.title = <<"D">>
        /\ m.event.summary = <<"S", "x">>
        /\ m.source_allowlist = None
        /\ Len(m.matches) = 1
        /\ m.matches[1].rule_id = <<"keyword:", "d", "\n", "s">>

\* C25: match returns exactly one RuleMatch per distinct normalized
\* keyword that occurs in the event text, with rule_id "keyword:" and the
\* normalized keyword, and no rule_id occurs twice in a result, whatever
\* the keyword list repeats.
C25_OneMatchPerDistinctKeyword ==
    \A m \in MatcherCalls :
        /\ Allowed(m) =>
              AgreesOn(m, Lower(m.event.title \o <<"\n">> \o m.event.summary))
        /\ \A i, j \in 1..Len(m.matches) :
              m.matches[i].rule_id = m.matches[j].rule_id => i = j

\* C26: when an allow-list is configured (any tuple, the empty one
\* included), match returns no matches for an event whose source is not a
\* member of it, whatever the keywords.
C26_AllowlistFilters ==
    \A m \in MatcherCalls :
        (m.source_allowlist # None
            /\ m.event.source \notin Range(m.source_allowlist[1]))
        => m.matches = <<>>

\* the polls in progress or ended
Polls == {run[p].fetch[1] : p \in {q \in Runners : run[q].fetch # None}}

\* the adapter filters by a watermark and the cursor carries one
HasWatermark(f) ==
    f.adapter # "modelscope" /\ f.cursor.key = CursorKey(f.adapter)

\* C27: a poll of the GitHub issues, GitHub pulls or HuggingFace adapter
\* with a cursor that encodes watermark W returns only events built from
\* upstream items whose time is strictly later than W: every event's item
\* was sent by upstream and is later than W, and no item at or before W is
\* the item of an event.
C27_OnlyItemsAfterWatermark ==
    \A f \in Polls :
        (HasWatermark(f) /\ f.pc = "returned") =>
            LET events == f.result[1].events
                sent_items == UNION {Range(f.pages[i].items) : i \in 1..Len(f.pages)}
            IN  /\ \A i \in 1..Len(events) :
                      /\ events[i].raw \in sent_items
                      /\ events[i].raw.at > f.cursor.at
                      /\ events[i].occurred_at = Some(events[i].raw.at)
                /\ \A it \in sent_items :
                      it.at <= f.cursor.at =>
                          \A i \in 1..Len(events) : events[i].raw # it

\* upstream sent an item at the watermark and a later one; the poll
\* returned the later one only
C27_Witness ==
    \E f \in Polls :
        /\ f.adapter = "issues"
        /\ f.cursor = Cursor("updated_after", 2, {})
        /\ f.pc = "returned"
        /\ Len(f.pages) = 1
        /\ f.pages[1].items = <<[id |-> "3", at |-> 3, pr |-> FALSE], [id |-> "2", at |-> 2, pr |-> FALSE]>>
        /\ Len(f.result[1].events) = 1
        /\ f.result[1].events[1].event_id = "3"
        /\ f.result[1].new_cursor = Cursor("updated_after", 3, {})

\* C28: a poll in which a page request raises or a page body fails the
\* validation raises: it ends raised exactly when a page failed, at
\* whatever page, and then it has returned no PollResult, neither events
\* nor a cursor; and a poll that returns a result had no failed page.
C28_PollFailsAtomically ==
    \A f \in Polls :
        /\ f.failed # Null <=> f.pc = "raised"
        /\ f.pc = "raised" => f.result = None
        /\ f.result # None => (f.pc = "returned" /\ f.failed = Null)

\* the second page of a poll failed after a first page with a new item:
\* the poll raised and returned nothing
C28_Witness ==
    \E f \in Polls :
        /\ f.adapter = "huggingface"
        /\ f.cursor = Cursor("last_modified_after", 2, {})
        /\ Len(f.pages) = 1
        /\ f.pages[1].items = <<[id |-> "3", at |-> 3, pr |-> FALSE]>>
        /\ f.pc = "raised"
        /\ f.failed = "malformed"
        /\ f.result = None

\* C29: a poll of the GitHub pulls or HuggingFace adapter with a cursor
\* issues no request after a page that holds an item at or before the
\* watermark: such a page is the last page fetched.
C29_StopsAtWatermark ==
    \A f \in Polls :
        (f.adapter \in {"pulls", "huggingface"} /\ HasWatermark(f)) =>
            \A i \in 1..Len(f.pages) :
                (\E it \in Range(f.pages[i].items) :
                    it.at # 0 /\ it.at <= f.cursor.at)
                => Len(f.pages) = i

\* C30: a poll of the GitHub pulls adapter with no cursor requests the
\* first page only, whatever next page the response advertises, and the
\* result it returns has a new cursor.
C30_BootstrapFirstPageOnly ==
    \A f \in Polls :
        (f.adapter = "pulls" /\ f.cursor.key = "none") =>
            /\ Len(f.pages) <= 1
            /\ (f.pc = "returned"
                    /\ \E it \in Range(f.pages[1].items) : it.at # 0)
               => f.result[1].new_cursor.key # "none"

\* C31: a ModelScope poll with K the ids of the input cursor and F the ids
\* upstream listed in the pages of this poll returns exactly one
\* model_added event per id in F minus K and a new cursor that encodes K
\* union F; and a poll with the returned cursor against the unchanged
\* upstream returns no event.
C31_NewIdsOnceAndKnownGrows ==
    \A f \in Polls :
        (f.adapter = "modelscope" /\ f.pc = "returned") =>
            LET K == IF f.cursor.key = "known_model_ids" THEN f.cursor.ids ELSE {}
                F == UNION {{it.id : it \in Range(f.pages[i].items)} :
                               i \in 1..Len(f.pages)}
                events == f.result[1].events
            IN  /\ {events[i].event_id : i \in 1..Len(events)} = F \ K
                /\ Len(events) = Cardinality(F \ K)
                /\ \A i \in 1..Len(events) :
                      events[i].event_type = "model_added"
                /\ f.result[1].new_cursor = Cursor("known_model_ids", 0, K \cup F)
                /\ K \subseteq f.result[1].new_cursor.ids
                /\ f.first # None => events = <<>>

\* a poll that knew model 1 was sent models 1 and 2 and returned model 2
\* and the cursor of both; the poll after it with that cursor got the same
\* page and returned nothing
C31_Witness ==
    \E f \in Polls :
        /\ f.adapter = "modelscope"
        /\ f.pc = "returned"
        /\ f.first # None
        /\ f.first[1].cursor = Cursor("known_model_ids", 0, {"1"})
        /\ f.first[1].pages = f.pages
        /\ Len(f.pages) = 1
        /\ f.pages[1].items = <<[id |-> "1", at |-> 1, pr |-> FALSE], [id |-> "2", at |-> 2, pr |-> FALSE]>>
        /\ Len(f.first[1].result.events) = 1
        /\ f.first[1].result.events[1].event_id = "2"
        /\ f.cursor = Cursor("known_model_ids", 0, {"1", "2"})
        /\ f.result[1].events = <<>>
        /\ f.result[1].new_cursor = f.cursor

\* C32: in daemon mode a run_once that raised never ends the loop: the
\* loop never exits, the one step after the exception is the logging of
\* the failure, and the failure leads to its log entry and to the start of
\* another run_once (as long as the bound on the cycles of the model
\* allows one).
C32_DaemonSurvivesFailedCycle ==
    /\ [](\A p \in Runners : run[p].pc # "exited")
    /\ [][\A p \in Runners :
            (run[p].failed_op # Null /\ run[p].pc = "idle" /\ run'[p] # run[p])
                => run'[p].pc = "logged" /\ cycles' = cycles]_vars
    /\ \A p \in Runners : \A n \in 1..(MaxCycles - 1) :
          (run[p].failed_op # Null /\ cycles = n)
              ~> (run[p].pc = "logged" /\ cycles = n)
    /\ \A p \in Runners : \A n \in 1..(MaxCycles - 1) :
          (run[p].failed_op # Null /\ cycles = n) ~> (cycles = n + 1)

\* ensure_schema raised in two cycles one after the other: the second
\* failure is logged as the first was, with the tables never created
C32_Witness ==
    \E p \in Runners :
        /\ cycles = 2
        /\ schema = FALSE
        /\ run[p].failed_op = "ensure_schema"
        /\ run[p].pc = "logged"

\* C33: with record_unmatched_as_seen false, the processing of an event
\* with no rule match changes no table (and sends nothing), so only
\* alerted fingerprints are ever in the seen-set; an event whose
\* fingerprint is not in the seen-set, returned before or not, goes to the
\* matcher; and an event that matches gets its alert row and, by the time
\* its processing ends, a send on every channel.
C33_UnmatchedStaysEligible ==
    /\ [][\A p \in Runners :
            (/\ ~record_unmatched_as_seen
             /\ run[p].pc = "match"
             /\ match(CurrentEvent(run[p])) = <<>>
             /\ run'[p] # run[p])
            => /\ UNCHANGED <<store, sent, raised, saved>>
               /\ run'[p].pc = "event"
               /\ run'[p].eidx = run[p].eidx + 1]_vars
    /\ [](~record_unmatched_as_seen =>
            \A fp \in seen_events : \E a \in alerts : a.fingerprint = fp)
    /\ [][\A p \in Runners :
            (/\ ~record_unmatched_as_seen
             /\ run[p].pc = "event"
             /\ run[p].eidx <= Len(run[p].events)
             /\ fingerprint(CurrentEvent(run[p])) \notin seen_events
             /\ run'[p] # run[p])
            => /\ run'[p].pc = "match"
               /\ CurrentEvent(run'[p]) = CurrentEvent(run[p])]_vars
    /\ [][\A p \in Runners :
            (/\ ~record_unmatched_as_seen
             /\ run[p].pc = "match"
             /\ match(CurrentEvent(run[p])) # <<>>
             /\ run'[p] # run[p])
            => /\ run'[p].pc = "send"
               /\ \E a \in alerts' :
                     /\ a.fingerprint = fingerprint(CurrentEvent(run[p]))
                     /\ a.event = CurrentEvent(run[p])]_vars
    /\ [][\A p \in Runners :
            (/\ ~record_unmatched_as_seen
             /\ run[p].pc = "send"
             /\ run'[p].pc = "event")
            => \A ch \in Channels :
                  sent'[<<run[p].alert[1].fingerprint, ch>>] = 1]_vars

\* the first cycle returned the fingerprint with a title that matched
\* nothing, the second with a matching title: the alert was created in the
\* second cycle, once, and sent on every channel
C33_Witness ==
    \E p \in Runners : \E a \in alerts :
        /\ ~record_unmatched_as_seen
        /\ cycles = 2
        /\ a.fingerprint \in run[p].prev
        /\ a.created_at = 2
        /\ a.event.title = TitleHit
        /\ saved[a.fingerprint] = 1
        /\ \A ch \in Channels : sent[<<a.fingerprint, ch>>] = 1
        /\ a.fingerprint \in seen_events

\* the runner is between the return of a poll and the end of that
\* source's turn
MidBatch(l) == l.pc \in {"event", "match", "send", "record_failure"}

\* C34: set_cursor is the last State Store write of a source's turn: while
\* the events of a poll are being processed the stored cursor is still the
\* one the poll was called with; a stored cursor changes only in the step
\* of a runner whose poll's events have all been processed, and to that
\* poll's new cursor; a process stop in the middle of a batch leaves the
\* cursor the poll was called with in the table; and every poll is called
\* with the stored cursor.
C34_CursorWrittenLast ==
    /\ [](\A p \in Runners :
            MidBatch(run[p]) => cursors[Sources[run[p].sidx]] = run[p].cursor)
    /\ [][\A k \in SourceKeys :
            cursors'[k] # cursors[k] =>
                \E p \in Runners :
                    /\ run[p].pc = "event"
                    /\ Sources[run[p].sidx] = k
                    /\ run[p].eidx > Len(run[p].events)
                    /\ run[p].cnt.events_processed = Len(run[p].events)
                    /\ run[p].new_cursor # Null
                    /\ cursors'[k] = run[p].new_cursor
                    /\ cursors[k] = run[p].cursor]_vars
    /\ [][\A p \in Runners :
            (crashes' = crashes + 1 /\ MidBatch(run[p])) =>
                /\ cursors'[Sources[run[p].sidx]] = run[p].cursor
                /\ run'[p].pc = "idle"]_vars
    /\ [][\A p \in Runners :
            PollStep(p) =>
                polled'[Sources[run[p].sidx]][1].cursor
                    = cursors[Sources[run[p].sidx]]]_vars

\* the process stopped in the second cycle after the alert of the one
\* event of a poll was saved and before it was marked seen: the poll was
\* called with the stored cursor "c1" and returned "c2", and "c1" is still
\* stored
C34_Witness ==
    \E p \in Runners : \E a \in alerts :
        /\ crashes = 1
        /\ run[p].pc = "idle"
        /\ polled[Sources[1]] =
               Some([cursor |-> "c1", new_cursor |-> "c2", raised |-> FALSE,
                     fetched |-> 1])
        /\ cursors[Sources[1]] = "c1"
        /\ a.created_at = 2
        /\ a.fingerprint \notin seen_events

MaxOf(S) == CHOOSE x \in S : \A y \in S : y <= x

\* the watermark a cursor carries for the adapter of poll f, a set of at
\* most one time
WatermarkOf(f, cursor) ==
    IF cursor.key = CursorKey(f.adapter) THEN {cursor.at} ELSE {}

\* the new cursor of the returned poll f carries the latest of the input
\* watermark and the times of the counted items that are later than it,
\* and is the input cursor if there is no such time at all
NewCursorIsLatest(f, counted) ==
    LET W == WatermarkOf(f, f.cursor)
        times == {it.at : it \in {i \in counted :
                                      i.at # 0 /\ \A w \in W : i.at > w}}
    IN  IF W \cup times = {}
        THEN f.result[1].new_cursor = f.cursor
        ELSE /\ f.result[1].new_cursor
                    = Cursor(CursorKey(f.adapter), MaxOf(W \cup times), {})
             /\ \A w \in W : f.result[1].new_cursor.at >= w

\* the items upstream sent in the pages of poll f
SentItems(f) == UNION {Range(f.pages[i].items) : i \in 1..Len(f.pages)}

\* the cursor stored for the source key never loses its watermark and the
\* watermark never gets earlier, whatever step is taken: a page, a return,
\* a raise, the next poll
StoredWatermarkMonotone ==
    [][\A p \in Runners :
         (run[p].fetch # None /\ run'[p].fetch # None) =>
            LET f == run[p].fetch[1]
                g == run'[p].fetch[1]
                before == IF f.pc = "returned"
                             /\ f.result[1].new_cursor.key # "none"
                          THEN f.result[1].new_cursor ELSE f.cursor
                after == IF g.pc = "returned"
                            /\ g.result[1].new_cursor.key # "none"
                         THEN g.result[1].new_cursor ELSE g.cursor
            IN  \A w \in WatermarkOf(f, before) :
                    /\ WatermarkOf(g, after) # {}
                    /\ \A v \in WatermarkOf(g, after) : v >= w]_vars

\* C35 as stated: for the GitHub and HuggingFace adapters the watermark of
\* the new cursor is the latest of the input watermark and the times of
\* all upstream items later than it, and the watermark stored for a
\* source key never moves backwards over polls that return or raise.
C35_WatermarkLatestOfAllItems ==
    /\ [](\A f \in Polls :
            (f.adapter # "modelscope" /\ f.pc = "returned") =>
                NewCursorIsLatest(f, SentItems(f)))
    /\ StoredWatermarkMonotone

\* C35, amended: the same where the items counted are those the adapter
\* does not skip: for the issues adapter the items that are not pull
\* requests, for the other two all items.
C35_WatermarkLatestOfKeptItems ==
    /\ [](\A f \in Polls :
            (f.adapter # "modelscope" /\ f.pc = "returned") =>
                NewCursorIsLatest(f,
                    {it \in SentItems(f) : ~(f.adapter = "issues" /\ it.pr)}))
    /\ StoredWatermarkMonotone

\* the second poll of the issues adapter was called with the stored
\* watermark 2 and was sent a pull request of time 3 and an issue of time
\* 1: it returned no event and the watermark 2
C35_Witness ==
    \E f \in Polls :
        /\ f.adapter = "issues"
        /\ f.polls = 2
        /\ f.first = None
        /\ f.cursor = Cursor("updated_after", 2, {})
        /\ f.pc = "returned"
        /\ Len(f.pages) = 1
        /\ f.pages[1].items = <<[id |-> "3", at |-> 3, pr |-> TRUE],
                                [id |-> "1", at |-> 1, pr |-> FALSE]>>
        /\ f.result[1].events = <<>>
        /\ f.result[1].new_cursor = Cursor("updated_after", 2, {})

\* the calls of HttpClient.get in progress or ended
Gets == {run[p].http[1] : p \in {q \in Runners : run[q].http # None}}

\* the outcome is one after which get tries again
IsRetried(o) ==
    \/ o.kind = "HTTPError" /\ o.code \in {429, 500, 502, 503, 504}
    \/ o.kind \in {"URLError", "TimeoutError"}

CountersAgree(c) ==
    /\ c.notify_attempts = c.notify_successes + c.notify_failures
    /\ c.alerts_created = c.events_matched
    /\ c.events_processed = c.events_fetched
    /\ c.events_skipped_seen + c.events_matched <= c.events_processed

\* the sum of a counter over the entries of a report
RECURSIVE SumOver(_, _)
SumOver(entries, counter) ==
    IF entries = <<>> THEN 0
    ELSE entries[1][counter] + SumOver(Tail(entries), counter)

\* C37: in every report run_once has returned, each per-source entry and
\* the totals have notify_attempts = notify_successes + notify_failures,
\* alerts_created = events_matched, events_processed = events_fetched and
\* events_skipped_seen + events_matched <= events_processed; every total is
\* the sum of the per-source values; and source_errors is the number of
\* entries with an error.
C37_ReportConsistent ==
    \A p \in Runners :
        run[p].report # None =>
            LET r == run[p].report[1] IN
            /\ CountersAgree(r)
            /\ \A i \in 1..Len(r.sources) : CountersAgree(r.sources[i])
            /\ \A counter \in {"events_fetched", "events_processed",
                                "events_skipped_seen", "events_matched",
                                "alerts_created", "notify_attempts",
                                "notify_successes", "notify_failures"} :
                  r[counter] = SumOver(r.sources, counter)
            /\ r.source_errors
                  = Cardinality({i \in 1..Len(r.sources) : r.sources[i].error # Null})

\* the report of a second cycle in which the poll of the first source
\* raised and the second source returned a seen event and a new one that
\* matched, with one send that failed
C37_Witness ==
    \E p \in Runners :
        /\ cycles = 2
        /\ run[p].report # None
        /\ run[p].report[1].source_errors = 1
        /\ run[p].report[1].sources[1].error # Null
        /\ run[p].report[1].events_fetched = 2
        /\ run[p].report[1].events_skipped_seen = 1
        /\ run[p].report[1].events_matched = 1
        /\ run[p].report[1].notify_attempts = 2
        /\ run[p].report[1].notify_failures = 1

\* _process_event is between its has_seen and its return
InProcessEvent(l) == l.pc \in {"match", "send", "record_failure"}

\* every fingerprint of the notify-failure log has an alert row
FailuresHaveAlerts ==
    \A i \in 1..Len(notify_failures) :
        \E a \in alerts : a.fingerprint = notify_failures[i].fingerprint

\* every fingerprint with an alert row is in the seen-set
AlertsAreSeen == \A a \in alerts : a.fingerprint \in seen_events

GitHubIdentityWithoutTime ==
    \A adapter \in {"issues", "pulls"} :
        \A a, b \in ItemUniverse \cup UpdateItems :
            a.id = b.id =>
                LET x == TrackerEventOf(adapter, a, TitleHit)
                    y == TrackerEventOf(adapter, b, TitleMiss)
                IN  <<x.source, x.resource_type, x.resource_id, x.event_type,
                      x.event_id>>
                    = <<y.source, y.resource_type, y.resource_id,
                        y.event_type, y.event_id>>

\* C39: the events the GitHub issues and pulls adapters build from one
\* item at different update times have the same identity, and so the same
\* fingerprint: every event of the issue that a runner has in hand has the
\* fingerprint of every other version of it; an alert is only ever created
\* in the cycle in which its fingerprint was first marked seen; and the
\* step that takes up an event whose fingerprint is in the seen-set,
\* whatever its title and update time, saves no alert and sends nothing.
C39_UpdateOfSeenItemIsSilent ==
    /\ [](GitHubIdentityWithoutTime)
    /\ [](\A p \in Runners : \A i \in 1..Len(run[p].events) :
            \A e \in UpdateUniverse :
                e.event_id = run[p].events[i].event_id =>
                    fingerprint(e) = fingerprint(run[p].events[i]))
    /\ [](\A a \in alerts :
            first_seen_at[a.fingerprint] \in {None, Some(a.created_at)})
    /\ [][\A p \in Runners :
            (/\ run[p].pc = "event"
             /\ run[p].eidx <= Len(run[p].events)
             /\ fingerprint(run[p].events[run[p].eidx]) \in seen_events
             /\ run'[p] # run[p])
            => /\ alerts' = alerts
               /\ saved' = saved
               /\ sent' = sent
               /\ run'[p].cnt.events_matched = run[p].cnt.events_matched]_vars

\* the first cycle processed the issue at update time 1 with a title that
\* matched nothing and marked it seen; the second cycle got the issue at
\* update time 2 with a matching title and skipped it: there is no alert
C39_Witness ==
    \E p \in Runners :
        /\ cycles = 2
        /\ run[p].pc = "event"
        /\ run[p].events
              = <<TrackerEventOf("issues", [id |-> "1", at |-> 2, pr |-> FALSE],
                                 TitleHit)>>
        /\ run[p].eidx = 2
        /\ run[p].cnt.events_skipped_seen = 1
        /\ first_seen_at[fingerprint(run[p].events[1])] = Some(1)
        /\ alerts = {}
        /\ \A x \in DOMAIN sent : sent[x] = 0

\* the calls of the ModelScope adapter's poll that are under way or over
Scans == {p \in Runners : run[p].scan # None}

\* C40: a call of ModelScopeOrgModelsSource.poll leaves its page loop or
\* raises; it makes at most 60 page requests, the n-th for page number n;
\* the request that is answered with an empty page, or with a total_count
\* of at most 50 times the page number, is the last one; and the loop
\* goes on to the next page after every other accepted answer while the
\* page number is below 60.
C40_PaginationTerminates ==
    /\ \A p \in Runners :
          (run[p].scan # None) ~>
              (run[p].scan # None /\ run[p].scan[1].pc \in {"collected", "raised"})
    /\ [](\A p \in Scans :
            LET s == run[p].scan[1] IN
            /\ s.requests <= 60
            /\ s.pc = "loop" => s.requests = s.page_number - 1
            /\ s.pc = "loop" /\ s.requests > 0 =>
                    /\ s.last[1].status = "ok"
                    /\ s.last[1].items > 0
                    /\ \/ s.last[1].total_count = None
                       \/ s.last[1].total_count[1] > 50 * s.requests)
    /\ [][\A p \in Scans :
            LET s == run[p].scan[1]
                t == run'[p].scan[1]
            IN  /\ t.requests > s.requests =>
                    /\ t.requests = s.requests + 1
                    /\ t.last[1].status = "ok"
                       /\ \/ t.last[1].items = 0
                          \/ /\ t.last[1].total_count # None
                             /\ t.last[1].total_count[1] <= 50 * t.requests
                       => t.pc = "collected"
                    /\ t.last[1].status = "ok" /\ t.pc # "loop"
                       /\ t.requests < 60
                       => \/ t.last[1].items = 0
                          \/ /\ t.last[1].total_count # None
                             /\ t.last[1].total_count[1] <= 50 * t.requests
                /\ s.pc \in {"collected", "raised"} => t = s]_vars

\* upstream answered sixty requests with a page that was not empty and
\* never reported a total_count: the loop is over
C40_Witness ==
    \E p \in Scans :
        LET s == run[p].scan[1] IN
        /\ s.pc = "collected"
        /\ s.requests = 60
        /\ ~s.reported
        /\ s.last[1].items > 0

====
